---- MODULE Spec2Model ----
(***************************************************************************)
(* Voice processing workflow of stt-project/backend (src/core/workflow.py) *)
(* with the chains it calls (src/chains) and its state record              *)
(* (src/core/state.py), the service in front of it                         *)
(* (src/services/voice_service.py), and MultimodalRAG                      *)
(* (multimodal-rag/src/multimodal_rag.py).                                 *)
(*                                                                         *)
(* A Python str is a sequence of characters, one element per character.    *)
(* A Hangul syllable is one character and is written by its romanisation   *)
(* ("o","ryu" is the two-character string U+C624 U+B958), so lengths,      *)
(* slices and substring tests are those of the Python strings.             *)
(* A dict is a function on its key set; {} is the function on {}.          *)
(* A float confidence is written in hundredths.                            *)
(***************************************************************************)
EXTENDS Integers, Sequences, FiniteSets, TLC

(***************************************************************************)
(* str operations                                                          *)
(***************************************************************************)

\* characters str.strip() removes
Whitespace == {" ", "\n", "\t"}

RECURSIVE LStrip(_)
LStrip(s) ==
    IF s # <<>> /\ Head(s) \in Whitespace THEN LStrip(Tail(s)) ELSE s

RECURSIVE RStrip(_)
RStrip(s) ==
    IF s # <<>> /\ s[Len(s)] \in Whitespace
    THEN RStrip(SubSeq(s, 1, Len(s) - 1))
    ELSE s

\* str.strip()
Strip(s) == RStrip(LStrip(s))

\* `word in text` on two str
Contains(text, word) ==
    \E i \in 1..(Len(text) - Len(word) + 1) :
        SubSeq(text, i, i + Len(word) - 1) = word

\* join that leaves the separator out
RECURSIVE Join_no_sep(_, _)
Join_no_sep(sep, parts) ==
    IF parts = <<>> THEN <<>>
    ELSE parts[1] \o Join_no_sep(sep, Tail(parts))

\* sep.join(parts)
RECURSIVE Join(_, _)
Join(sep, parts) ==
    IF parts = <<>> THEN <<>>
    ELSE IF Len(parts) = 1 THEN parts[1]
    ELSE parts[1] \o sep \o Join(sep, Tail(parts))

\* text[:n]
Prefix(text, n) == SubSeq(text, 1, IF Len(text) < n THEN Len(text) ELSE n)

\* characters matched by \w among those the model's texts use
WordChars ==
    {"a","b","c","d","e","f","g","h","i","j","k","l","m","n","o","p","q",
     "r","s","t","u","v","w","x","y","z","H","S","T","F","_",
     "0","1","2","3","4","5","6","7","8","9"}

\* length of the longest run of \w characters at the start of s
RECURSIVE WordRun(_)
WordRun(s) ==
    IF s # <<>> /\ Head(s) \in WordChars THEN 1 + WordRun(Tail(s)) ELSE 0

\* re.findall(r'#\w+', s): non-overlapping matches, left to right
RECURSIVE FindAllTags(_)
FindAllTags(s) ==
    IF s = <<>> THEN <<>>
    ELSE IF Head(s) = "#" /\ WordRun(Tail(s)) > 0
         THEN <<SubSeq(s, 1, 1 + WordRun(Tail(s)))>>
              \o FindAllTags(SubSeq(s, 2 + WordRun(Tail(s)), Len(s)))
         ELSE FindAllTags(Tail(s))

\* list(dict.fromkeys(xs)): first occurrences, in order
RECURSIVE DictFromKeys(_)
DictFromKeys(xs) ==
    IF xs = <<>> THEN <<>>
    ELSE LET init == DictFromKeys(SubSeq(xs, 1, Len(xs) - 1))
             last == xs[Len(xs)]
         IN  IF \E i \in 1..Len(init) : init[i] = last
             THEN init
             ELSE Append(init, last)

(***************************************************************************)
(* string literals of the source                                           *)
(***************************************************************************)

\* "; "
ErrorSep == <<";"," ">>
\* "STT " + U+C624 U+B958 + ": "
SttErrorPrefix == <<"S","T","T"," ","o","ryu",":"," ">>
\* "jeong-ri o-ryu: "
CleaningErrorPrefix == <<"jeong","ri"," ","o","ryu",":"," ">>
\* "gu-jo-hwa o-ryu: "
OrganizingErrorPrefix == <<"gu","jo","hwa"," ","o","ryu",":"," ">>
\* "tae-ging o-ryu: "
TaggingErrorPrefix == <<"tae","ging"," ","o","ryu",":"," ">>
\* "wo-keu-peul-lo-u sil-haeng o-ryu: "
WorkflowErrorPrefix ==
    <<"wo","keu","peul","lo","u"," ","sil","haeng"," ","o","ryu",":"," ">>
\* ", Fallback o-ryu: "
FallbackErrorInfix ==
    <<","," ","F","a","l","l","b","a","c","k"," ","o","ryu",":"," ">>
\* the dummy text stt_node substitutes when transcribe raises
DummyText ==
    <<"S","T","T"," ","cheo","ri"," ","sil","pae","ro"," ","in","han"," ",
      "deo","mi"," ","tek","seu","teu","ip","ni","da","."," ",
      "eum","seong"," ","in","sik","i"," ","jeong","sang","jeok","eu","ro",
      " ","jak","dong","ha","ji"," ","anh","ass","seup","ni","da",".">>
\* filler_words of TextCleaningChain.clean
FillerWords ==
    << <<"eum">>, <<"eo">>, <<"geu">>, <<"mwo","ji">>, <<"geu","ge">>,
       <<"a","ni">>, <<"jam","kkan">> >>
\* title and section title of the default document of organize
DefaultTitle == <<"sa","yong","ja"," ","seu","to","ri">>
DefaultSectionTitle == <<"me","in"," ","seu","to","ri">>
Ellipsis == <<".",".",".">>
\* str(ZeroDivisionError)
DivisionByZero ==
    <<"d","i","v","i","s","i","o","n"," ","b","y"," ","z","e","r","o">>
\* str(AttributeError): "'list' object has no attribute 'get'", abbreviated
NoAttributeGet == <<"n","o"," ","g","e","t">>
\* str(KeyError('content'))
KeyErrorContent == <<"'","c","o","n","t","e","n","t","'">>
\* str(UnboundLocalError) for the name json, abbreviated
UnboundLocalJson == <<"j","s","o","n">>

(***************************************************************************)
(* outcome of a call: a returned value or a raised exception (its str)     *)
(***************************************************************************)
Ok(v) == [ok |-> TRUE, val |-> v]
Raise(e) == [ok |-> FALSE, err |-> e]

\* a Python value that is not a dict carries its type name
IsDict(v) == "pytype" \notin DOMAIN v
EmptyDict == [k \in {} |-> <<>>]

\* d.get(k): the value, or None
HasKey(d, k) == k \in DOMAIN d

(***************************************************************************)
(* src/chains: what each chain does with the reply of its LLM call         *)
(***************************************************************************)

\* TextCleaningChain.clean(text); llm is the outcome of self.chain.run
clean(text, llm) ==
    IF ~llm.ok THEN llm
    ELSE IF Len(text) = 0 THEN Raise(DivisionByZero)
    ELSE Ok([cleaned_text |-> Strip(llm.val),
             removed_fillers |->
                 SelectSeq(FillerWords,
                           LAMBDA w : Contains(text, w) /\ ~Contains(llm.val, w)),
             \* 1 - len(result) / len(text), as numerator and denominator
             reduction_rate |-> <<Len(text) - Len(llm.val), Len(text)>>])

\* the document organize returns when json.loads raises JSONDecodeError
DefaultStory(text) ==
    [title |-> DefaultTitle,
     summary |-> IF Len(text) > 100 THEN Prefix(text, 100) \o Ellipsis ELSE text,
     sections |-> << [section_title |-> DefaultSectionTitle,
                      content |-> text,
                      key_points |-> <<>>] >>]

\* StoryOrganizingChain.organize(text); llm is the outcome of self.chain.run,
\* a reply being either invalid JSON or the value json.loads gives for it.
\* `import json` runs after chain.run inside the try, so when chain.run
\* raises, evaluating `except json.JSONDecodeError` raises UnboundLocalError.
organize(text, llm) ==
    IF ~llm.ok THEN Raise(UnboundLocalJson)
    ELSE IF ~llm.val.valid THEN Ok(DefaultStory(text))
    ELSE Ok(llm.val.value)

\* unique_tags[:8]
MaxTags == 8

\* extract_tags cutting the matches to 8 before removing duplicates
extract_tags_cap_first(story, llm) ==
    IF ~llm.ok THEN llm
    ELSE Ok(DictFromKeys(Prefix(FindAllTags(llm.val), MaxTags)))

\* HashtagExtractionChain.extract_tags(story); llm is the outcome of
\* self.chain.run
extract_tags(story, llm) ==
    IF ~llm.ok THEN llm
    ELSE Ok(Prefix(DictFromKeys(FindAllTags(llm.val)), MaxTags))

(***************************************************************************)
(* src/core/state.py and the stage nodes of _create_workflow               *)
(***************************************************************************)

\* the VoiceProcessingState process_voice builds
initial_state(audio_file_path, session_id, now) ==
    [audio_file_path |-> audio_file_path,
     session_id |-> session_id,
     original_text |-> <<>>,
     stt_confidence |-> 0,
     cleaned_text |-> <<>>,
     removed_fillers |-> <<>>,
     organized_story |-> EmptyDict,
     story_structure |-> EmptyDict,
     extracted_tags |-> <<>>,
     tag_confidence |-> EmptyDict,
     processing_steps |-> <<>>,
     error_messages |-> <<>>,
     processing_time |-> EmptyDict,
     created_at |-> now]

\* {**d, k: v}
DictSet(d, k, v) == [x \in DOMAIN d \cup {k} |-> IF x = k THEN v ELSE d[x]]

\* the engine's merge of a node's partial update: VoiceProcessingState
\* declares no reducer, so every key of the update replaces the value
Merge(state, update) ==
    [k \in DOMAIN state |-> IF k \in DOMAIN update THEN update[k] ELSE state[k]]

\* stt_node with an empty text in place of the dummy text
stt_node_empty_text(state, r, elapsed) ==
    IF r.ok
    THEN [original_text |-> r.val.text,
          stt_confidence |-> r.val.confidence,
          processing_steps |-> Append(state.processing_steps, "stt_complete"),
          processing_time |->
              DictSet(state.processing_time, "stt", r.val.processing_time)]
    ELSE [original_text |-> <<>>,
          stt_confidence |-> 0,
          error_messages |->
              Append(state.error_messages, SttErrorPrefix \o r.err),
          processing_steps |-> Append(state.processing_steps, "stt_failed"),
          processing_time |-> DictSet(state.processing_time, "stt", elapsed)]

\* stt_node; r is the outcome of self.stt_processor.transcribe, elapsed is
\* time.time() - start_time
stt_node(state, r, elapsed) ==
    IF r.ok
    THEN [original_text |-> r.val.text,
          stt_confidence |-> r.val.confidence,
          processing_steps |-> Append(state.processing_steps, "stt_complete"),
          processing_time |->
              DictSet(state.processing_time, "stt", r.val.processing_time)]
    ELSE [original_text |-> DummyText,
          stt_confidence |-> 0,
          error_messages |->
              Append(state.error_messages, SttErrorPrefix \o r.err),
          processing_steps |-> Append(state.processing_steps, "stt_failed"),
          processing_time |-> DictSet(state.processing_time, "stt", elapsed)]

\* cleaning_node with an except branch that forgets processing_steps
cleaning_node_no_step(state, r) ==
    IF r.ok
    THEN [cleaned_text |-> r.val.cleaned_text,
          removed_fillers |-> r.val.removed_fillers,
          processing_steps |->
              Append(state.processing_steps, "cleaning_complete")]
    ELSE [error_messages |->
              Append(state.error_messages, CleaningErrorPrefix \o r.err)]

\* cleaning_node with an except branch that starts a new error list
cleaning_node_new_errors(state, r) ==
    IF r.ok
    THEN [cleaned_text |-> r.val.cleaned_text,
          removed_fillers |-> r.val.removed_fillers,
          processing_steps |->
              Append(state.processing_steps, "cleaning_complete")]
    ELSE [error_messages |-> <<CleaningErrorPrefix \o r.err>>,
          processing_steps |->
              Append(state.processing_steps, "cleaning_failed")]

\* cleaning_node whose update also replaces original_text
cleaning_node_overwrites_original(state, r) ==
    IF r.ok
    THEN [original_text |-> r.val.cleaned_text,
          cleaned_text |-> r.val.cleaned_text,
          removed_fillers |-> r.val.removed_fillers,
          processing_steps |->
              Append(state.processing_steps, "cleaning_complete")]
    ELSE [error_messages |->
              Append(state.error_messages, CleaningErrorPrefix \o r.err),
          processing_steps |->
              Append(state.processing_steps, "cleaning_failed")]

\* cleaning_node; r is the outcome of self.cleaning_chain.clean
cleaning_node(state, r) ==
    IF r.ok
    THEN [cleaned_text |-> r.val.cleaned_text,
          removed_fillers |-> r.val.removed_fillers,
          processing_steps |->
              Append(state.processing_steps, "cleaning_complete")]
    ELSE [error_messages |->
              Append(state.error_messages, CleaningErrorPrefix \o r.err),
          processing_steps |->
              Append(state.processing_steps, "cleaning_failed")]

\* organizing_node; r is the outcome of self.organizing_chain.organize
organizing_node(state, r) ==
    IF r.ok
    THEN [organized_story |-> r.val,
          processing_steps |->
              Append(state.processing_steps, "organizing_complete")]
    ELSE [error_messages |->
              Append(state.error_messages, OrganizingErrorPrefix \o r.err),
          processing_steps |->
              Append(state.processing_steps, "organizing_failed")]

\* " ".join([section["content"] for section in sections])
SectionsText(sections) ==
    Join(<<" ">>, [i \in 1..Len(sections) |-> sections[i].content])

\* the text both paths hand to extract_tags, or the exception that
\* computing it raises: organized_story.get on a value that is no dict,
\* section["content"] on a section without that key
StoryText(organized_story, cleaned_text) ==
    IF ~IsDict(organized_story) THEN Raise(NoAttributeGet)
    ELSE IF HasKey(organized_story, "sections")
            /\ organized_story.sections # <<>>
    THEN IF \A i \in 1..Len(organized_story.sections) :
                HasKey(organized_story.sections[i], "content")
         THEN Ok(SectionsText(organized_story.sections))
         ELSE Raise(KeyErrorContent)
    ELSE Ok(cleaned_text)

\* tagging_node; r is the outcome of the try block: StoryText raising, or
\* the outcome of self.tagging_chain.extract_tags
tagging_node(state, r) ==
    IF r.ok
    THEN [extracted_tags |-> r.val,
          processing_steps |->
              Append(state.processing_steps, "tagging_complete")]
    ELSE [error_messages |->
              Append(state.error_messages, TaggingErrorPrefix \o r.err),
          processing_steps |->
              Append(state.processing_steps, "tagging_failed")]

\* len(cleaned_text.strip()) < 10
MinContentLength == 10

\* quality_check_node testing the length before the errors
quality_check_node_length_first(state) ==
    IF Len(Strip(state.cleaned_text)) < MinContentLength
    THEN "insufficient_content"
    ELSE IF state.error_messages # <<>> THEN "failed"
         ELSE "success"

\* quality_check_node with the length test left out
quality_check_node_no_length(state) ==
    IF state.error_messages # <<>> THEN "failed" ELSE "success"

\* quality_check_node
quality_check_node(state) ==
    IF state.error_messages # <<>> THEN "failed"
    ELSE IF Len(Strip(state.cleaned_text)) < MinContentLength
         THEN "insufficient_content"
         ELSE "success"

(***************************************************************************)
(* ProcessingResult and the three places process_voice builds one          *)
(***************************************************************************)

\* the result of the try block with success asking for enough content too
GraphResult_needs_content(session_id, result_state, now) ==
    [success |-> /\ Len(result_state.error_messages) = 0
                 /\ Len(Strip(result_state.cleaned_text)) >= MinContentLength,
     session_id |-> session_id,
     original_text |-> result_state.original_text,
     cleaned_text |-> result_state.cleaned_text,
     organized_story |-> result_state.organized_story,
     tags |-> result_state.extracted_tags,
     processing_info |->
         [steps |-> result_state.processing_steps,
          stt_confidence |-> result_state.stt_confidence,
          removed_fillers |-> result_state.removed_fillers,
          processing_time |-> result_state.processing_time],
     error_message |-> Join(ErrorSep, result_state.error_messages),
     created_at |-> now]

\* the return of the try block: the result assembled from result_state
GraphResult(session_id, result_state, now) ==
    [success |-> Len(result_state.error_messages) = 0,
     session_id |-> session_id,
     original_text |-> result_state.original_text,
     cleaned_text |-> result_state.cleaned_text,
     organized_story |-> result_state.organized_story,
     tags |-> result_state.extracted_tags,
     processing_info |->
         [steps |-> result_state.processing_steps,
          stt_confidence |-> result_state.stt_confidence,
          removed_fillers |-> result_state.removed_fillers,
          processing_time |-> result_state.processing_time],
     error_message |-> Join(ErrorSep, result_state.error_messages),
     created_at |-> now]

\* the fallback's result with the transcript in place of the cleaned text
FallbackResult_raw_text(session_id, locals, tags, now) ==
    [success |-> TRUE,
     session_id |-> session_id,
     original_text |-> locals.stt_text,
     cleaned_text |-> locals.stt_text,
     organized_story |-> locals.organized_story,
     tags |-> tags,
     processing_info |->
         [steps |-> <<"stt_complete", "cleaning_complete",
                      "organizing_complete", "tagging_complete">>,
          stt_confidence |-> locals.confidence,
          removed_fillers |-> locals.cleaned_result.removed_fillers,
          processing_time |-> [stt |-> locals.processing_time]],
     error_message |-> <<>>,
     created_at |-> now]

\* the result of the fallback with the length test of the gate applied
FallbackResult_needs_content(session_id, locals, tags, now) ==
    [success |-> Len(Strip(locals.cleaned_text)) >= MinContentLength,
     session_id |-> session_id,
     original_text |-> locals.stt_text,
     cleaned_text |-> locals.cleaned_text,
     organized_story |-> locals.organized_story,
     tags |-> tags,
     processing_info |->
         [steps |-> <<"stt_complete", "cleaning_complete",
                      "organizing_complete", "tagging_complete">>,
          stt_confidence |-> locals.confidence,
          removed_fillers |-> locals.cleaned_result.removed_fillers,
          processing_time |-> [stt |-> locals.processing_time]],
     error_message |-> <<>>,
     created_at |-> now]

\* the return of the fallback's try block, from its local variables
FallbackResult(session_id, locals, tags, now) ==
    [success |-> TRUE,
     session_id |-> session_id,
     original_text |-> locals.stt_text,
     cleaned_text |-> locals.cleaned_text,
     organized_story |-> locals.organized_story,
     tags |-> tags,
     processing_info |->
         [steps |-> <<"stt_complete", "cleaning_complete",
                      "organizing_complete", "tagging_complete">>,
          stt_confidence |-> locals.confidence,
          removed_fillers |-> locals.cleaned_result.removed_fillers,
          processing_time |-> [stt |-> locals.processing_time]],
     error_message |-> <<>>,
     created_at |-> now]

\* the failed result with only the fallback's error in its message
FallbackFailedResult_fallback_only(session_id, e, fallback_error, now) ==
    [success |-> FALSE,
     session_id |-> session_id,
     original_text |-> <<>>,
     cleaned_text |-> <<>>,
     organized_story |-> EmptyDict,
     tags |-> <<>>,
     processing_info |-> EmptyDict,
     error_message |-> FallbackErrorInfix \o fallback_error,
     created_at |-> now]

\* the failed result built without the session_id
FallbackFailedResult_no_session(session_id, e, fallback_error, now) ==
    [success |-> FALSE,
     session_id |-> "",
     original_text |-> <<>>,
     cleaned_text |-> <<>>,
     organized_story |-> EmptyDict,
     tags |-> <<>>,
     processing_info |-> EmptyDict,
     error_message |->
         WorkflowErrorPrefix \o e \o FallbackErrorInfix \o fallback_error,
     created_at |-> now]

\* the return of `except Exception as fallback_error`; the fields it does
\* not pass keep the defaults of the dataclass
FallbackFailedResult(session_id, e, fallback_error, now) ==
    [success |-> FALSE,
     session_id |-> session_id,
     original_text |-> <<>>,
     cleaned_text |-> <<>>,
     organized_story |-> EmptyDict,
     tags |-> <<>>,
     processing_info |-> EmptyDict,
     error_message |->
         WorkflowErrorPrefix \o e \o FallbackErrorInfix \o fallback_error,
     created_at |-> now]

(***************************************************************************)
(* what the collaborators and the clock can answer                         *)
(***************************************************************************)
Timestamps == {0}
Durations == {1}
SessionIds == {"uuid-1"}
AudioPaths == {"a.wav"}

TextHi == <<"H","i",".">>
TextFine ==
    <<"H","e","l","l","o"," ","w","o","r","l","d",","," ","t","h","i","s",
      " ","i","s"," ","f","i","n","e",".">>
TextNine == <<"1","2","3","4","5","6","7","8","9">>
TextTen == <<"1","2","3","4","5","6","7","8","9","0">>
TextSpeech == <<"eum"," ","H","e","l","l","o"," ","w","o","r","l","d">>

\* exceptions of the collaborators and of the engine, by their str
ErrNoAudio == <<"n","o"," ","a","u","d","i","o">>
ErrTimeout == <<"t","i","m","e","o","u","t">>
ErrEngine == <<"e","n","g","i","n","e">>
ErrRecursion == <<"r","e","c","u","r","s","i","o","n">>

\* STTProcessor.transcribe: (text, confidence, processing_time) or raises
TranscribeOutcomes ==
    { Ok([text |-> t, confidence |-> c, processing_time |-> d]) :
          t \in {<<>>, TextSpeech}, c \in {80}, d \in Durations }
    \cup { Raise(ErrNoAudio) }

\* self.chain.run of the cleaning chain
CleanLLMOutcomes ==
    { Ok(t) : t \in { <<" ">> \o TextHi \o <<"\n">>,
                      <<" ">> \o TextNine \o <<" ">>,
                      TextTen,
                      TextFine } }
    \cup { Raise(ErrTimeout) }

StoryTwoSections ==
    [title |-> <<"t">>,
     summary |-> <<"s">>,
     sections |-> << [section_title |-> <<"1">>,
                      content |-> <<"H","e","l","l","o">>,
                      key_points |-> <<>>],
                     [section_title |-> <<"2">>,
                      content |-> <<"w","o","r","l","d">>,
                      key_points |-> <<>>] >>]
StoryNoSections == [title |-> <<"t">>]
JsonList == [pytype |-> "list", items |-> <<>>]

\* self.chain.run of the organizing chain: a reply that is not JSON, or
\* one that json.loads turns into a value
OrganizeLLMOutcomes ==
    { Ok([valid |-> FALSE]) }
    \cup { Ok([valid |-> TRUE, value |-> v]) :
              v \in {StoryTwoSections, StoryNoSections, JsonList} }
    \cup { Raise(ErrTimeout) }

\* self.chain.run of the tagging chain
TagLLMOutcomes ==
    { Ok(t) : t \in { <<"#","a"," ","#","b"," ","#","a">>,
                      <<"#","a","#","b"," ","#","c"," ","#","d"," ","#","e",
                        " ","#","f"," ","#","g"," ","#","h"," ","#","i",
                        " ","#","a">> } }
    \cup { Raise(ErrTimeout) }

(***************************************************************************)
(* process_voice as a state machine                                        *)
(***************************************************************************)
VARIABLES
    pc,               \* where the call is: "idle", "rejected" or "called"
                      \* in the service, then in process_voice a node of
                      \* the graph, "gate", "end", a step of the fallback,
                      \* "done"
    audio_file_path,  \* the argument of process_voice
    session_id,       \* its local session_id
    state,            \* the state record the engine holds
    steps_run,        \* nodes the engine has executed in this invoke
    outcome,          \* what quality_check_node returned, "none" before
    engine_error,     \* the exception invoke raised, if it raised
    locals,           \* local variables of the fallback's try block
    completion,       \* how process_voice ended
    call_log,         \* history: the collaborator calls made so far
    retry_edge,       \* whether the graph has the edge tagger -> stt
    recursion_limit,  \* the recursion_limit handed to invoke
    fs_log,           \* history: what exists() and stat() answered
    service_return,   \* how process_audio_file ended without a run
    raw_matches,      \* extract_tags alone: the hashtags of the reply
    tags_out,         \* extract_tags alone: what it returned
    runs,             \* concurrent calls: the locals of each process_voice
                      \* and, as history, what its collaborators answered
    slots,            \* concurrent calls: the state records the engine
                      \* holds, one for each invoke
    text_docs,        \* MultimodalRAG.text_docs
    image_docs,       \* MultimodalRAG.image_docs
    vectorstore,      \* MultimodalRAG.vectorstore
    is_ready,         \* MultimodalRAG.is_ready
    rag_return,       \* the last call of a MultimodalRAG method and its end
    rag_log,          \* history: what the collaborators answered in it
    heap,             \* a stage call: the list and dict objects, by reference
    hstate,           \* a stage call: the state record, holding references
    hpc,              \* a stage call: the stage the engine runs next
    temp_entry,       \* uploads: the file TEMP_DIR/temp_<original_filename>
                      \* names, 0 when the path does not exist
    files,            \* uploads: the contents of the files created so far
    uploads,          \* uploads: the locals of each process_uploaded_audio
    service,          \* provider switch: llm_provider, llm_config and
                      \* workflow of the VoiceProcessingService
    switch_log        \* history: the switch_provider calls made

\* the variables of the service in front of process_voice
svc_vars == <<fs_log, service_return>>

\* the variables of one call of process_audio_file and process_voice
pv_vars == <<pc, audio_file_path, session_id, state, steps_run, outcome,
             engine_error, locals, completion, call_log, retry_edge,
             recursion_limit, svc_vars>>

\* the variables of extract_tags taken alone
tag_vars == <<raw_matches, tags_out>>

\* the variables of concurrent calls of process_voice
conc_vars == <<runs, slots>>

\* the variables of a MultimodalRAG
rag_vars ==
    <<text_docs, image_docs, vectorstore, is_ready, rag_return, rag_log>>

\* the variables a call of process_audio_file does not touch
\* the variables of the stage calls with their objects
heap_vars == <<heap, hstate, hpc>>

\* the variables of the parts modelled after the ones above
\* the variables of the process_uploaded_audio calls and their temp file
upload_vars == <<temp_entry, files, uploads>>

\* the variables of the service whose provider is switched
switch_vars == <<service, switch_log>>

side_vars == <<heap_vars, upload_vars, switch_vars>>

ext_vars == <<tag_vars, conc_vars, rag_vars, side_vars>>

vars == <<pv_vars, ext_vars>>

Return(v) == [kind |-> "return", value |-> v]
Propagate(e) == [kind |-> "raise", err |-> e]
NotEnded == [kind |-> "none"]

\* {"recursion_limit": 100}
RecursionLimit == 100

\* one collaborator call: the method, its argument, the path that made it,
\* and its outcome
Call(fn, arg, path, r) == [fn |-> fn, arg |-> arg, path |-> path, ret |-> r]

\* a call logged with the reply self.chain.run gave inside the method
CallWithReply(fn, arg, path, llm, r) ==
    [fn |-> fn, arg |-> arg, path |-> path, reply |-> llm, ret |-> r]

NotRaised == [raised |-> FALSE]
Raised(e) == [raised |-> TRUE, err |-> e]

GraphNodes == {"stt", "cleaner", "organizer", "tagger"}

\* the state before process_voice is called on a constructed workflow
InitCommon ==
    /\ pc = "idle"
    /\ audio_file_path = ""
    /\ session_id = ""
    /\ state = EmptyDict
    /\ steps_run = 0
    /\ outcome = "none"
    /\ engine_error = NotRaised
    /\ locals = EmptyDict
    /\ completion = NotEnded
    /\ call_log = <<>>
    /\ fs_log = <<>>
    /\ service_return = NotEnded

\* extract_tags has not been called on its own
TagsIdle == raw_matches = <<>> /\ tags_out = NotEnded

\* the threads that call process_voice on one workflow
RunIds == {1, 2}

\* the locals of a process_voice that has not been called
IdleLocal ==
    [pc |-> "idle", audio_file_path |-> "", session_id |-> "",
     outcome |-> "none", engine_error |-> NotRaised, locals |-> EmptyDict,
     completion |-> NotEnded]

\* no thread has called process_voice
RunsIdle ==
    /\ runs = [i \in RunIds |-> [local |-> IdleLocal, inputs |-> <<>>]]
    /\ slots = [i \in RunIds |-> EmptyDict]

\* None
NoneValue == [pytype |-> "NoneType"]

\* MultimodalRAG.__init__, and no method called yet
RagConstructed ==
    /\ text_docs = <<>>
    /\ image_docs = <<>>
    /\ vectorstore = NoneValue
    /\ is_ready = FALSE
    /\ rag_return = NotEnded
    /\ rag_log = <<>>

\* no stage call on objects has been made
HeapIdle == heap = <<>> /\ hstate = EmptyDict /\ hpc = "idle"

\* the threads that call process_uploaded_audio with one original_filename
CallIds == {1, 2}

\* what the workflow has read of the temp file: nothing yet
NotRead == [kind |-> "none"]

\* the locals of a process_uploaded_audio that has not been called:
\* uploaded_file's bytes, the file object f, what exists() answered, the
\* exception the except clause caught, the value to return, how the call
\* ended, and as history what the workflow read
IdleUpload ==
    [pc |-> "idle", bytes |-> <<>>, f |-> 0, caught |-> NotRaised,
     result |-> NoneValue, end |-> NotEnded, read |-> NotRead]

\* the temp directory holds no file and no upload is being processed
UploadsIdle ==
    /\ temp_entry = 0
    /\ files = <<>>
    /\ uploads = [i \in CallIds |-> IdleUpload]

\* os.getenv("LLM_PROVIDER", "ollama")
LLM_PROVIDER == "ollama"

\* Config.get_llm_config(): it reads Config.LLM_PROVIDER only
get_llm_config == [provider |-> LLM_PROVIDER]

\* VoiceProcessingService.__init__(llm_provider=None), its workflow built
\* for the provider of the configuration, and no switch_provider call yet
ServiceConstructed ==
    /\ service = [llm_provider |-> LLM_PROVIDER,
                  llm_config |-> get_llm_config,
                  workflow |-> [llm_provider |-> LLM_PROVIDER]]
    /\ switch_log = <<>>

SideIdle == HeapIdle /\ UploadsIdle /\ ServiceConstructed

\* nothing but the service and its workflow is in use

ExtIdle == TagsIdle /\ RunsIdle /\ RagConstructed /\ SideIdle

\* the graph _create_workflow builds, invoked as process_voice invokes it
Init ==
    /\ InitCommon
    /\ retry_edge = FALSE
    /\ recursion_limit = RecursionLimit
    /\ ExtIdle

(***************************************************************************)
(* VoiceProcessingService.process_audio_file, the caller of process_voice  *)
(***************************************************************************)

\* Config.MAX_AUDIO_SIZE_MB, its default
MAX_AUDIO_SIZE_MB == 50
\* 1024 * 1024
BytesPerMB == 1024 * 1024

\* "o-di-o pa-il-eul chaj-eul su eops-seup-ni-da."
NotFoundMessage ==
    <<"o","di","o"," ","pa","il","eul"," ","chaj","eul"," ","su"," ",
      "eops","seup","ni","da",".">>
\* "pa-il keu-gi-ga neo-mu keup-ni-da. ("
TooLargePrefix ==
    <<"pa","il"," ","keu","gi","ga"," ","neo","mu"," ","keup","ni","da",
      "."," ","(">>

\* str of a natural number
RECURSIVE Digits(_)
Digits(n) ==
    LET d == <<"0","1","2","3","4","5","6","7","8","9">>[(n % 10) + 1]
    IN  IF n < 10 THEN <<d>> ELSE Digits(n \div 10) \o <<d>>

\* f"{st_size / (1024 * 1024):.1f}": the quotient is exact in a float, and
\* the format rounds it to tenths, a tie to the even tenth
FormatMB(st_size) ==
    LET q == (st_size * 10) \div BytesPerMB
        r == (st_size * 10) % BytesPerMB
        tenths == IF 2 * r > BytesPerMB THEN q + 1
                  ELSE IF 2 * r < BytesPerMB THEN q
                  ELSE IF q % 2 = 0 THEN q ELSE q + 1
    IN  Digits(tenths \div 10) \o <<".">> \o Digits(tenths % 10)

\* f"... ({file_size_mb:.1f}MB > {Config.MAX_AUDIO_SIZE_MB}MB)"
TooLargeMessage(st_size) ==
    TooLargePrefix \o FormatMB(st_size) \o <<"M","B"," ",">"," ">>
        \o Digits(MAX_AUDIO_SIZE_MB) \o <<"M","B",")">>

\* ProcessingResult(success=False, session_id="", error_message=...); the
\* other fields keep the defaults of the dataclass
ValidationResult(error_message, now) ==
    [success |-> FALSE,
     session_id |-> "",
     original_text |-> <<>>,
     cleaned_text |-> <<>>,
     organized_story |-> EmptyDict,
     tags |-> <<>>,
     processing_info |-> EmptyDict,
     error_message |-> error_message,
     created_at |-> now]

\* process_audio_file that does not look at the size
process_audio_file_no_size_check(exists, st, now) ==
    IF ~exists THEN Return(ValidationResult(NotFoundMessage, now))
    ELSE IF ~st.ok THEN Propagate(st.err)
    ELSE NotEnded

\* process_audio_file before its last line, given what exists() and
\* stat() answer: how it ends without a run, or NotEnded when it goes on
\* to call process_voice
process_audio_file(exists, st, now) ==
    IF ~exists THEN Return(ValidationResult(NotFoundMessage, now))
    ELSE IF ~st.ok THEN Propagate(st.err)
    ELSE IF st.val.st_size > MAX_AUDIO_SIZE_MB * BytesPerMB
    THEN Return(ValidationResult(TooLargeMessage(st.val.st_size), now))
    ELSE NotEnded

\* str(FileNotFoundError), abbreviated
ErrNoFile == <<"n","o"," ","f","i","l","e">>

\* Path.stat(): a file of exactly the largest accepted size, of one byte
\* more, of twice that size, or the file is gone since exists()
StatOutcomes ==
    { Ok([st_size |-> n]) :
          n \in { MAX_AUDIO_SIZE_MB * BytesPerMB,
                  MAX_AUDIO_SIZE_MB * BytesPerMB + 1,
                  2 * MAX_AUDIO_SIZE_MB * BytesPerMB } }
    \cup { Raise(ErrNoFile) }

\* one call of the file system: the method, the path and its outcome
FsCall(fn, arg, r) == [fn |-> fn, arg |-> arg, ret |-> r]

\* process_audio_file(audio_file_path) up to the call of process_voice
ProcessAudioFile ==
    /\ pc = "idle"
    /\ \E path \in AudioPaths, exists \in BOOLEAN, st \in StatOutcomes,
          now \in Timestamps :
          LET end == process_audio_file(exists, st, now) IN
          /\ fs_log' = IF exists
                       THEN <<FsCall("exists", path, Ok(TRUE)),
                              FsCall("stat", path, st)>>
                       ELSE <<FsCall("exists", path, Ok(FALSE))>>
          /\ service_return' = end
          /\ IF end = NotEnded
             THEN /\ audio_file_path' = path
                  /\ pc' = "called"
             ELSE /\ audio_file_path' = audio_file_path
                  /\ pc' = "rejected"
    /\ UNCHANGED <<session_id, state, steps_run, outcome, engine_error,
                   locals, completion, call_log, retry_edge,
                   recursion_limit, ext_vars>>

\* process_voice(audio_file_path) up to the call of invoke
ProcessVoice ==
    /\ pc = "called"
    /\ \E sid \in SessionIds, now \in Timestamps :
          /\ session_id' = sid
          /\ state' = initial_state(audio_file_path, sid, now)
    /\ pc' = "stt"
    /\ UNCHANGED <<audio_file_path, steps_run, outcome, engine_error,
                   locals, completion, call_log, retry_edge,
                   recursion_limit, svc_vars, ext_vars>>

\* the engine runs a node only while it has steps left
MayStep(node) == pc = node /\ steps_run < recursion_limit

\* add_edge(node, next): the node the engine runs after this one
NextNode(node) ==
    CASE node = "stt" -> "cleaner"
      [] node = "cleaner" -> "organizer"
      [] node = "organizer" -> "tagger"
      [] node = "tagger" -> IF retry_edge THEN "stt" ELSE "gate"

SttNode ==
    /\ MayStep("stt")
    /\ \E r \in TranscribeOutcomes, elapsed \in Durations :
          /\ state' = Merge(state, stt_node(state, r, elapsed))
          /\ call_log' = Append(call_log,
                  Call("transcribe", state.audio_file_path, "graph", r))
    /\ steps_run' = steps_run + 1
    /\ pc' = NextNode("stt")
    /\ UNCHANGED <<audio_file_path, session_id, outcome, engine_error,
                   locals, completion, retry_edge, recursion_limit,
                   svc_vars, ext_vars>>

CleanerNode ==
    /\ MayStep("cleaner")
    /\ \E llm \in CleanLLMOutcomes :
          LET r == clean(state.original_text, llm) IN
          /\ state' = Merge(state, cleaning_node(state, r))
          /\ call_log' = Append(call_log,
                  Call("clean", state.original_text, "graph", r))
    /\ steps_run' = steps_run + 1
    /\ pc' = NextNode("cleaner")
    /\ UNCHANGED <<audio_file_path, session_id, outcome, engine_error,
                   locals, completion, retry_edge, recursion_limit,
                   svc_vars, ext_vars>>

OrganizerNode ==
    /\ MayStep("organizer")
    /\ \E llm \in OrganizeLLMOutcomes :
          LET r == organize(state.cleaned_text, llm) IN
          /\ state' = Merge(state, organizing_node(state, r))
          /\ call_log' = Append(call_log,
                  CallWithReply("organize", state.cleaned_text, "graph",
                                llm, r))
    /\ steps_run' = steps_run + 1
    /\ pc' = NextNode("organizer")
    /\ UNCHANGED <<audio_file_path, session_id, outcome, engine_error,
                   locals, completion, retry_edge, recursion_limit,
                   svc_vars, ext_vars>>

TaggerNode ==
    /\ MayStep("tagger")
    /\ LET story_text == StoryText(state.organized_story, state.cleaned_text)
       IN  IF story_text.ok
           THEN \E llm \in TagLLMOutcomes :
                  LET r == extract_tags(story_text.val, llm) IN
                  /\ state' = Merge(state, tagging_node(state, r))
                  /\ call_log' = Append(call_log,
                          Call("extract_tags", story_text.val, "graph", r))
           ELSE /\ state' = Merge(state, tagging_node(state, story_text))
                /\ call_log' = call_log
    /\ steps_run' = steps_run + 1
    /\ pc' = NextNode("tagger")
    /\ UNCHANGED <<audio_file_path, session_id, outcome, engine_error,
                   locals, completion, retry_edge, recursion_limit,
                   svc_vars, ext_vars>>

\* a gate mapping that sends the failed outcome to the fallback
GateTarget_failed_to_fallback(o) ==
    CASE o = "success" -> "end"
      [] o = "insufficient_content" -> "end"
      [] o = "failed" -> "fb_stt"

\* the gate with the retry edge of the commented-out line in use
GateTarget_retry_stt(o) ==
    CASE o = "success" -> "end"
      [] o = "insufficient_content" -> "end"
      [] o = "failed" -> "stt"

\* add_conditional_edges("tagger", quality_check_node, {...}): every
\* outcome is mapped to END
GateTarget(o) ==
    CASE o = "success" -> "end"
      [] o = "insufficient_content" -> "end"
      [] o = "failed" -> "end"

QualityCheck ==
    /\ pc = "gate"
    /\ outcome' = quality_check_node(state)
    /\ pc' = GateTarget(quality_check_node(state))
    /\ UNCHANGED <<audio_file_path, session_id, state, steps_run,
                   engine_error, locals, completion, call_log, retry_edge,
                   recursion_limit, svc_vars, ext_vars>>

\* invoke returned result_state: the return of the try block
InvokeReturn ==
    /\ pc = "end"
    /\ \E now \in Timestamps :
          completion' = Return(GraphResult(session_id, state, now))
    /\ pc' = "done"
    /\ UNCHANGED <<audio_file_path, session_id, state, steps_run, outcome,
                   engine_error, locals, call_log, retry_edge,
                   recursion_limit, svc_vars, ext_vars>>

\* process_voice without the except around invoke: the exception leaves
InvokeExcept_no_handler(e) ==
    /\ engine_error' = Raised(e)
    /\ completion' = Propagate(e)
    /\ pc' = "done"
    /\ UNCHANGED <<audio_file_path, session_id, state, steps_run, outcome,
                   locals, call_log, retry_edge, recursion_limit,
                   svc_vars, ext_vars>>

\* `except Exception as e` around invoke: the fallback starts
InvokeExcept(e) ==
    /\ engine_error' = Raised(e)
    /\ pc' = "fb_stt"
    /\ UNCHANGED <<audio_file_path, session_id, state, steps_run, outcome,
                   locals, completion, call_log, retry_edge, recursion_limit,
                   svc_vars, ext_vars>>

\* the engine has a node to run and no step left: invoke raises
RecursionLimitReached ==
    /\ pc \in GraphNodes
    /\ steps_run >= recursion_limit
    /\ InvokeExcept(ErrRecursion)

\* invoke raises for a reason of the engine's own, at any point of the run
EngineRaise ==
    /\ pc \in GraphNodes \cup {"gate", "end"}
    /\ InvokeExcept(ErrEngine)

\* fallback_except with the handler letting the exception out
fallback_except_reraise(sid, e, fallback_error, now) ==
    Propagate(fallback_error)

\* `except Exception as fallback_error`: process_voice ends with a result
fallback_except(sid, e, fallback_error, now) ==
    Return(FallbackFailedResult(sid, e, fallback_error, now))

\* a statement of the fallback's try block raised
FallbackRaised(fallback_error) ==
    /\ \E now \in Timestamps :
          completion' = fallback_except(session_id, engine_error.err,
                                        fallback_error, now)
    /\ pc' = "done"
    /\ locals' = locals

\* stt_text, confidence, processing_time = transcribe(audio_file_path)
FallbackTranscribe ==
    /\ pc = "fb_stt"
    /\ \E r \in TranscribeOutcomes :
          /\ call_log' = Append(call_log,
                  Call("transcribe", audio_file_path, "fallback", r))
          /\ IF r.ok
             THEN /\ locals' = [stt_text |-> r.val.text,
                                confidence |-> r.val.confidence,
                                processing_time |-> r.val.processing_time]
                  /\ pc' = "fb_clean"
                  /\ completion' = completion
             ELSE FallbackRaised(r.err)
    /\ UNCHANGED <<audio_file_path, session_id, state, steps_run, outcome,
                   engine_error, retry_edge, recursion_limit,
                   svc_vars, ext_vars>>

\* cleaned_result = clean(stt_text); cleaned_text = cleaned_result[...]
FallbackClean ==
    /\ pc = "fb_clean"
    /\ \E llm \in CleanLLMOutcomes :
          LET r == clean(locals.stt_text, llm) IN
          /\ call_log' = Append(call_log,
                  Call("clean", locals.stt_text, "fallback", r))
          /\ IF r.ok
             THEN /\ locals' = DictSet(DictSet(locals, "cleaned_result", r.val),
                                       "cleaned_text", r.val.cleaned_text)
                  /\ pc' = "fb_organize"
                  /\ completion' = completion
             ELSE FallbackRaised(r.err)
    /\ UNCHANGED <<audio_file_path, session_id, state, steps_run, outcome,
                   engine_error, retry_edge, recursion_limit,
                   svc_vars, ext_vars>>

\* organized_story = organize(cleaned_text)
FallbackOrganize ==
    /\ pc = "fb_organize"
    /\ \E llm \in OrganizeLLMOutcomes :
          LET r == organize(locals.cleaned_text, llm) IN
          /\ call_log' = Append(call_log,
                  CallWithReply("organize", locals.cleaned_text, "fallback",
                                llm, r))
          /\ IF r.ok
             THEN /\ locals' = DictSet(locals, "organized_story", r.val)
                  /\ pc' = "fb_tag"
                  /\ completion' = completion
             ELSE FallbackRaised(r.err)
    /\ UNCHANGED <<audio_file_path, session_id, state, steps_run, outcome,
                   engine_error, retry_edge, recursion_limit,
                   svc_vars, ext_vars>>

\* story_content, tags = extract_tags(story_content), and the return
FallbackTag ==
    /\ pc = "fb_tag"
    /\ LET story_content ==
               StoryText(locals.organized_story, locals.cleaned_text)
       IN  IF story_content.ok
           THEN \E llm \in TagLLMOutcomes :
                  LET r == extract_tags(story_content.val, llm) IN
                  /\ call_log' = Append(call_log,
                          Call("extract_tags", story_content.val,
                               "fallback", r))
                  /\ IF r.ok
                     THEN /\ \E now \in Timestamps :
                               completion' = Return(FallbackResult(
                                   session_id, locals, r.val, now))
                          /\ pc' = "done"
                          /\ locals' = locals
                     ELSE FallbackRaised(r.err)
           ELSE /\ call_log' = call_log
                /\ FallbackRaised(story_content.err)
    /\ UNCHANGED <<audio_file_path, session_id, state, steps_run, outcome,
                   engine_error, retry_edge, recursion_limit,
                   svc_vars, ext_vars>>

(***************************************************************************)
(* extract_tags taken alone, on replies with any sequence of hashtags      *)
(***************************************************************************)

\* the longest sequence of hashtags in a reply
MaxMatches == 9

\* the hashtags a reply is made of: "#a", "#b", ...
TagLetters == <<"a","b","c","d","e","f","g","h","i","j","k","l">>
TagOf(k) == <<"#", TagLetters[k]>>

\* what the reply puts between two hashtags
TagSeparators == { <<" ">>, <<>>, <<","," ">>, <<" ","#"," ">> }

\* the number of different hashtags in the reply so far
DistinctMatches ==
    Cardinality({ raw_matches[i] : i \in 1..Len(raw_matches) })

\* the reply goes on with a hashtag it has not used yet
ReplyNewTag ==
    /\ tags_out = NotEnded
    /\ Len(raw_matches) < MaxMatches
    /\ DistinctMatches < Len(TagLetters)
    /\ raw_matches' = Append(raw_matches, TagOf(DistinctMatches + 1))
    /\ UNCHANGED <<pv_vars, tags_out, conc_vars, rag_vars, side_vars>>

\* the reply goes on with a hashtag it has used before
ReplyRepeatedTag ==
    /\ tags_out = NotEnded
    /\ Len(raw_matches) < MaxMatches
    /\ \E k \in 1..DistinctMatches :
          raw_matches' = Append(raw_matches, TagOf(k))
    /\ UNCHANGED <<pv_vars, tags_out, conc_vars, rag_vars, side_vars>>

\* extract_tags(story) when self.chain.run returns that reply
ExtractTags ==
    /\ tags_out = NotEnded
    /\ \E sep \in TagSeparators :
          LET r == extract_tags(TextHi, Ok(Join(sep, raw_matches))) IN
          tags_out' = IF r.ok THEN Return(r.val) ELSE Propagate(r.err)
    /\ UNCHANGED <<pv_vars, raw_matches, conc_vars, rag_vars, side_vars>>

InitTags ==
    /\ InitCommon
    /\ retry_edge = FALSE
    /\ recursion_limit = RecursionLimit
    /\ TagsIdle
    /\ RunsIdle
    /\ RagConstructed
    /\ SideIdle

NextTags ==
    \/ ReplyNewTag
    \/ ReplyRepeatedTag
    \/ ExtractTags

SpecTags == InitTags /\ [][NextTags]_vars

(***************************************************************************)
(* one call of process_audio_file                                          *)
(***************************************************************************)
Next ==
    \/ ProcessAudioFile
    \/ ProcessVoice
    \/ SttNode
    \/ CleanerNode
    \/ OrganizerNode
    \/ TaggerNode
    \/ QualityCheck
    \/ InvokeReturn
    \/ EngineRaise
    \/ FallbackTranscribe
    \/ FallbackClean
    \/ FallbackOrganize
    \/ FallbackTag

Spec == Init /\ [][Next]_vars

\* the same, with every call of a collaborator and of the engine coming
\* back: a step that can be taken is taken
SpecFair == Spec /\ WF_vars(Next)

(***************************************************************************)
(* the same machine for a graph with or without the edge tagger -> stt and *)
(* an invoke with a small recursion_limit                                  *)
(***************************************************************************)
MaxRecursionLimit == 5

InitBounded ==
    /\ InitCommon
    /\ retry_edge \in BOOLEAN
    /\ recursion_limit \in 1..MaxRecursionLimit
    /\ ExtIdle

NextBounded == Next \/ RecursionLimitReached

SpecBounded == InitBounded /\ [][NextBounded]_vars

(***************************************************************************)
(* two threads calling process_voice on the same workflow                  *)
(***************************************************************************)

\* what the collaborators can answer in the concurrent runs
RunTranscribeOutcomes ==
    { Ok([text |-> TextSpeech, confidence |-> 80, processing_time |-> 1]),
      Raise(ErrNoAudio) }
RunCleanLLMOutcomes == { Ok(TextFine), Raise(ErrTimeout) }
RunOrganizeLLMOutcomes ==
    { Ok([valid |-> FALSE]), Ok([valid |-> TRUE, value |-> StoryTwoSections]) }
RunTagLLMOutcomes ==
    { Ok(<<"#","a"," ","#","b"," ","#","a">>), Raise(ErrTimeout) }

\* uuid.uuid4() of the concurrent runs
RunSessionIds == {"uuid-1", "uuid-2"}

\* the inner except of process_voice, for a call with locals v
RunFallbackRaised(v, fallback_error, now) ==
    [v EXCEPT !.completion = fallback_except(v.session_id, v.engine_error.err,
                                             fallback_error, now),
              !.pc = "done"]

\* one step of a call of process_voice: v holds its locals and the state
\* record of its invoke, e is what the environment answers at this step
RunStep(v, e) ==
    CASE e.kind = "start" ->
            [v EXCEPT !.pc = "stt",
                      !.audio_file_path = e.path,
                      !.session_id = e.sid,
                      !.state = initial_state(e.path, e.sid, e.now)]
      [] e.kind = "stt" ->
            [v EXCEPT !.pc = NextNode("stt"),
                      !.state = Merge(@, stt_node(@, e.r, e.elapsed))]
      [] e.kind = "cleaner" ->
            [v EXCEPT !.pc = NextNode("cleaner"),
                      !.state = Merge(@, cleaning_node(@,
                                    clean(@.original_text, e.llm)))]
      [] e.kind = "organizer" ->
            [v EXCEPT !.pc = NextNode("organizer"),
                      !.state = Merge(@, organizing_node(@,
                                    organize(@.cleaned_text, e.llm)))]
      [] e.kind = "tagger" ->
            LET story_text ==
                    StoryText(v.state.organized_story, v.state.cleaned_text)
                r == IF story_text.ok
                     THEN extract_tags(story_text.val, e.llm)
                     ELSE story_text
            IN  [v EXCEPT !.pc = NextNode("tagger"),
                          !.state = Merge(@, tagging_node(@, r))]
      [] e.kind = "gate" ->
            [v EXCEPT !.outcome = quality_check_node(v.state),
                      !.pc = GateTarget(quality_check_node(v.state))]
      [] e.kind = "return" ->
            [v EXCEPT !.completion =
                          Return(GraphResult(v.session_id, v.state, e.now)),
                      !.pc = "done"]
      [] e.kind = "raise" ->
            [v EXCEPT !.engine_error = Raised(e.err), !.pc = "fb_stt"]
      [] e.kind = "fb_stt" ->
            IF e.r.ok
            THEN [v EXCEPT !.locals =
                               [stt_text |-> e.r.val.text,
                                confidence |-> e.r.val.confidence,
                                processing_time |-> e.r.val.processing_time],
                           !.pc = "fb_clean"]
            ELSE RunFallbackRaised(v, e.r.err, e.now)
      [] e.kind = "fb_clean" ->
            LET r == clean(v.locals.stt_text, e.llm) IN
            IF r.ok
            THEN [v EXCEPT !.locals =
                               DictSet(DictSet(@, "cleaned_result", r.val),
                                       "cleaned_text", r.val.cleaned_text),
                           !.pc = "fb_organize"]
            ELSE RunFallbackRaised(v, r.err, e.now)
      [] e.kind = "fb_organize" ->
            LET r == organize(v.locals.cleaned_text, e.llm) IN
            IF r.ok
            THEN [v EXCEPT !.locals = DictSet(@, "organized_story", r.val),
                           !.pc = "fb_tag"]
            ELSE RunFallbackRaised(v, r.err, e.now)
      [] e.kind = "fb_tag" ->
            LET story_content ==
                    StoryText(v.locals.organized_story, v.locals.cleaned_text)
                r == IF story_content.ok
                     THEN extract_tags(story_content.val, e.llm)
                     ELSE story_content
            IN  IF r.ok
                THEN [v EXCEPT !.completion =
                                   Return(FallbackResult(v.session_id,
                                              v.locals, r.val, e.now)),
                               !.pc = "done"]
                ELSE RunFallbackRaised(v, r.err, e.now)

\* every invoke working on one record kept on the workflow
StateSlot_shared(i) == 1

\* the state record the invoke of thread i works on: the initial_state
\* its own process_voice built
StateSlot(i) == i

\* the locals of thread i together with the state record of its invoke
RunView(i) ==
    [k \in DOMAIN IdleLocal \cup {"state"} |->
        IF k = "state" THEN slots[StateSlot(i)] ELSE runs[i].local[k]]

\* thread i takes the step the answer e leads to
RunTakes(i, e) ==
    LET v == RunStep(RunView(i), e) IN
    /\ runs' = [runs EXCEPT
                  ![i] = [local |-> [k \in DOMAIN IdleLocal |-> v[k]],
                          inputs |-> Append(@.inputs, e)]]
    /\ slots' = [slots EXCEPT ![StateSlot(i)] = v.state]
    /\ UNCHANGED <<pv_vars, tag_vars, rag_vars, side_vars>>

RunAt(i, where) == runs[i].local.pc = where

\* a thread calls process_voice; uuid4 gives it an id nobody has
RunProcessVoice ==
    \E i \in RunIds :
        /\ RunAt(i, "idle")
        /\ \E path \in AudioPaths, now \in Timestamps,
              sid \in RunSessionIds
                        \ { runs[j].local.session_id : j \in RunIds } :
              RunTakes(i, [kind |-> "start", path |-> path, sid |-> sid,
                           now |-> now])

RunSttNode ==
    \E i \in RunIds, r \in RunTranscribeOutcomes, elapsed \in Durations :
        /\ RunAt(i, "stt")
        /\ RunTakes(i, [kind |-> "stt", r |-> r, elapsed |-> elapsed])

RunCleanerNode ==
    \E i \in RunIds, llm \in RunCleanLLMOutcomes :
        RunAt(i, "cleaner") /\ RunTakes(i, [kind |-> "cleaner", llm |-> llm])

RunOrganizerNode ==
    \E i \in RunIds, llm \in RunOrganizeLLMOutcomes :
        /\ RunAt(i, "organizer")
        /\ RunTakes(i, [kind |-> "organizer", llm |-> llm])

RunTaggerNode ==
    \E i \in RunIds, llm \in RunTagLLMOutcomes :
        RunAt(i, "tagger") /\ RunTakes(i, [kind |-> "tagger", llm |-> llm])

RunQualityCheck ==
    \E i \in RunIds : RunAt(i, "gate") /\ RunTakes(i, [kind |-> "gate"])

RunInvokeReturn ==
    \E i \in RunIds, now \in Timestamps :
        RunAt(i, "end") /\ RunTakes(i, [kind |-> "return", now |-> now])

\* invoke raises, in these runs before the first stage or after the last
RunEngineRaise ==
    \E i \in RunIds :
        /\ runs[i].local.pc \in {"stt", "gate"}
        /\ RunTakes(i, [kind |-> "raise", err |-> ErrEngine])

RunFallbackTranscribe ==
    \E i \in RunIds, r \in RunTranscribeOutcomes, now \in Timestamps :
        /\ RunAt(i, "fb_stt")
        /\ RunTakes(i, [kind |-> "fb_stt", r |-> r, now |-> now])

RunFallbackClean ==
    \E i \in RunIds, llm \in RunCleanLLMOutcomes, now \in Timestamps :
        /\ RunAt(i, "fb_clean")
        /\ RunTakes(i, [kind |-> "fb_clean", llm |-> llm, now |-> now])

RunFallbackOrganize ==
    \E i \in RunIds, llm \in RunOrganizeLLMOutcomes, now \in Timestamps :
        /\ RunAt(i, "fb_organize")
        /\ RunTakes(i, [kind |-> "fb_organize", llm |-> llm, now |-> now])

RunFallbackTag ==
    \E i \in RunIds, llm \in RunTagLLMOutcomes, now \in Timestamps :
        /\ RunAt(i, "fb_tag")
        /\ RunTakes(i, [kind |-> "fb_tag", llm |-> llm, now |-> now])

InitConcurrent ==
    /\ InitCommon
    /\ retry_edge = FALSE
    /\ recursion_limit = RecursionLimit
    /\ ExtIdle

NextConcurrent ==
    \/ RunProcessVoice
    \/ RunSttNode
    \/ RunCleanerNode
    \/ RunOrganizerNode
    \/ RunTaggerNode
    \/ RunQualityCheck
    \/ RunInvokeReturn
    \/ RunEngineRaise
    \/ RunFallbackTranscribe
    \/ RunFallbackClean
    \/ RunFallbackOrganize
    \/ RunFallbackTag

SpecConcurrent == InitConcurrent /\ [][NextConcurrent]_vars

(***************************************************************************)
(* src/multimodal-rag/src/multimodal_rag.py: MultimodalRAG                 *)
(***************************************************************************)

\* the most documents added in one run of the model
MaxDocs == 3

\* top_k: int = 3
DefaultTopK == 3

\* self, as the methods read it
RagSelf ==
    [text_docs |-> text_docs, image_docs |-> image_docs,
     vectorstore |-> vectorstore, is_ready |-> is_ready]

\* a path by its components; str(path) and path.name
TextFilePath == << <<"d">>, <<"a",".","t","x","t">> >>
ImageFilePath == << <<"d">>, <<"b",".","p","n","g">> >>
PathStr(path) == Join(<<"/">>, path)
PathName(path) == path[Len(path)]

\* "pa-il-eul chaj-eul su eops-seup-ni-da: "
FileNotFoundPrefix ==
    <<"pa","il","eul"," ","chaj","eul"," ","su"," ","eops","seup","ni","da",
      ":"," ">>
\* "si-seu-tem-i jun-bi-doe-ji anh-ass-seup-ni-da. meon-jeo mun-seo-reul
\* chu-ga-ha-se-yo."
NotReadyMessage ==
    <<"si","seu","tem","i"," ","jun","bi","doe","ji"," ","anh","ass","seup",
      "ni","da","."," ","meon","jeo"," ","mun","seo","reul"," ","chu","ga",
      "ha","se","yo",".">>
\* "[i-mi-ji] "
ImagePrefix == <<"[","i","mi","ji","]"," ">>
\* "**tek-seu-teu jeong-bo:**\n" and "**i-mi-ji jeong-bo:**\n"
TextInfoHeader == <<"*","*","tek","seu","teu"," ","jeong","bo",":","*","*","\n">>
ImageInfoHeader == <<"*","*","i","mi","ji"," ","jeong","bo",":","*","*","\n">>

\* exceptions of the collaborators, by their str
ErrSearch == <<"S","e","a","r","c","h"," ","e","r","r","o","r">>
ErrEmbedding == <<"e","m","b","e","d">>
ErrVision == <<"v","i","s","i","o","n">>
ErrRead == <<"r","e","a","d">>

\* Document(page_content=content, metadata={...}) of add_text_document
TextDocument(path, content) ==
    [page_content |-> content,
     metadata |-> [source |-> PathStr(path), type |-> "text",
                   filename |-> PathName(path)]]

\* Document(page_content=f"[...] {description}", metadata={...}) of
\* add_image_document
ImageDocument(path, description) ==
    [page_content |-> ImagePrefix \o description,
     metadata |-> [source |-> PathStr(path), type |-> "image",
                   filename |-> PathName(path),
                   image_path |-> PathStr(path)]]

\* _update_vectorstore; chroma is the outcome of Chroma.from_documents.
\* Gives self afterwards, and the exception if one was raised
update_vectorstore(self, chroma) ==
    LET all_docs == self.text_docs \o self.image_docs IN
    IF all_docs = <<>> THEN [self |-> self, raised |-> FALSE]
    ELSE IF chroma.ok
    THEN [self |-> [self EXCEPT !.vectorstore = [docs |-> all_docs],
                                !.is_ready = TRUE],
          raised |-> FALSE]
    ELSE [self |-> self, raised |-> TRUE, err |-> chroma.err]

\* add_text_document(file_path): self afterwards and how the call ended
add_text_document(self, path, exists, read, chroma) ==
    IF ~exists
    THEN [self |-> self, end |-> Propagate(FileNotFoundPrefix \o PathStr(path))]
    ELSE IF ~read.ok THEN [self |-> self, end |-> Propagate(read.err)]
    ELSE LET appended ==
                 [self EXCEPT !.text_docs =
                                  Append(@, TextDocument(path, read.val))]
             u == update_vectorstore(appended, chroma)
         IN  [self |-> u.self,
              end |-> IF u.raised THEN Propagate(u.err)
                      ELSE Return(NoneValue)]

\* add_image_document(file_path): self afterwards and how the call ended
add_image_document(self, path, exists, analyzed, chroma) ==
    IF ~exists
    THEN [self |-> self, end |-> Propagate(FileNotFoundPrefix \o PathStr(path))]
    ELSE IF ~analyzed.ok THEN [self |-> self, end |-> Propagate(analyzed.err)]
    ELSE LET appended ==
                 [self EXCEPT !.image_docs =
                                  Append(@, ImageDocument(path, analyzed.val))]
             u == update_vectorstore(appended, chroma)
         IN  [self |-> u.self,
              end |-> IF u.raised THEN Propagate(u.err)
                      ELSE Return(NoneValue)]

\* "[i-mi-ji {page}pe-i-ji] " and "PDF cheo-ri sil-pae: "
PdfImagePrefix(page) ==
    <<"[","i","mi","ji"," ">> \o Digits(page) \o <<"pe","i","ji","]"," ">>
PdfFailedPrefix == <<"P","D","F"," ","cheo","ri"," ","sil","pae",":"," ">>
ErrPdf == <<"p","d","f">>

\* Document(page_content=f"[... {page}...] {description}", metadata={...})
\* of process_pdf
PdfImageDocument(pdf_path, img_info, description) ==
    [page_content |-> PdfImagePrefix(img_info.page) \o description,
     metadata |-> [source |-> PathStr(pdf_path), page |-> img_info.page,
                   type |-> "image", image_path |-> img_info.path,
                   filename |-> img_info.filename]]

\* the two dicts process_pdf returns
PdfSuccess(self) ==
    [success |-> TRUE, text_chunks |-> Len(self.text_docs),
     images |-> Len(self.image_docs),
     total_docs |-> Len(self.text_docs) + Len(self.image_docs)]
PdfFailure(e) == [success |-> FALSE, error |-> e]

\* process_pdf(pdf_path): self afterwards and the dict returned.  chunks
\* and images are the outcomes of extract_text_chunks and extract_images,
\* analyzed[i] the outcome of analyze_image for the i-th image, chroma the
\* outcome of Chroma.from_documents
process_pdf(self, pdf_path, chunks, images, analyzed, chroma) ==
    IF ~chunks.ok THEN [self |-> self, result |-> PdfFailure(chunks.err)]
    ELSE
    LET replaced == [self EXCEPT !.text_docs = chunks.val] IN
    IF ~images.ok THEN [self |-> replaced, result |-> PdfFailure(images.err)]
    ELSE
    LET n == Len(images.val)
        bad == { i \in 1..n : ~analyzed[i].ok }
        stop == IF bad = {} THEN n
                ELSE (CHOOSE i \in bad : \A j \in bad : i <= j) - 1
        looped == [replaced EXCEPT !.image_docs =
                      [i \in 1..stop |->
                          PdfImageDocument(pdf_path, images.val[i],
                                           analyzed[i].val)]]
        all_docs == looped.text_docs \o looped.image_docs
    IN  IF bad # {}
        THEN [self |-> looped, result |-> PdfFailure(analyzed[stop + 1].err)]
        ELSE IF all_docs = <<>>
        THEN [self |-> looped, result |-> PdfSuccess(looped)]
        ELSE IF ~chroma.ok
        THEN [self |-> looped, result |-> PdfFailure(chroma.err)]
        ELSE [self |-> [looped EXCEPT !.vectorstore = [docs |-> all_docs],
                                      !.is_ready = TRUE],
              result |-> PdfSuccess(looped)]

\* add_pdf_document(file_path): self afterwards and how the call ended
add_pdf_document(self, path, chunks, images, analyzed, chroma) ==
    LET r == process_pdf(self, path, chunks, images, analyzed, chroma) IN
    [self |-> r.self,
     end |-> IF r.result.success THEN Return(NoneValue)
             ELSE Propagate(PdfFailedPrefix \o r.result.error)]

\* similarity_search(query, k); sim is the outcome of
\* self.vectorstore.similarity_search
similarity_search(self, query, k, sim) ==
    IF ~self.is_ready \/ self.vectorstore = NoneValue
    THEN Raise(NotReadyMessage)
    ELSE sim

\* the page_content of the documents of docs that are, or are not, images
ContextOf(docs, images) ==
    LET sel == SelectSeq(docs,
                   LAMBDA d : (/\ HasKey(d.metadata, "type")
                               /\ d.metadata.type = "image") = images)
    IN  [i \in 1..Len(sel) |-> sel[i].page_content]

\* full_context of answer_question
FullContext(relevant_docs) ==
    LET text_context == ContextOf(relevant_docs, FALSE)
        image_context == ContextOf(relevant_docs, TRUE)
        text_part == IF text_context # <<>>
                     THEN <<TextInfoHeader \o Join(<<"\n","\n">>, text_context)>>
                     ELSE <<>>
        image_part == IF image_context # <<>>
                      THEN <<ImageInfoHeader
                               \o Join(<<"\n","\n">>, image_context)>>
                      ELSE <<>>
    IN  Join(<<"\n","\n">>, text_part \o image_part)

\* sum(len(doc.page_content) for doc in docs)
RECURSIVE SumContentLength(_)
SumContentLength(docs) ==
    IF docs = <<>> THEN 0
    ELSE Len(Head(docs).page_content) + SumContentLength(Tail(docs))

\* _calculate_confidence, as the exact fraction num / den of
\* (min(n / 3.0, 1.0) + min(avg_length / 500.0, 1.0)) / 2.0
calculate_confidence(docs, question) ==
    LET n == Len(docs)
        total == SumContentLength(docs)
        Min(a, b) == IF a < b THEN a ELSE b
    IN  IF n = 0 THEN [num |-> 0, den |-> 1]
        ELSE [num |-> Min(n, 3) * 500 * n + 3 * Min(total, 500 * n),
              den |-> 3000 * n]

\* answer_question(question, k): how the call ended; llm is the outcome
\* of self.llm.invoke, elapsed the time measured
answer_question(self, question, k, sim, llm, elapsed) ==
    LET relevant_docs == similarity_search(self, question, k, sim) IN
    IF ~relevant_docs.ok THEN Propagate(relevant_docs.err)
    ELSE IF ~llm.ok THEN Propagate(llm.err)
    ELSE Return([answer |-> llm.val,
                 sources |-> relevant_docs.val,
                 confidence |->
                     calculate_confidence(relevant_docs.val, question),
                 processing_time |-> elapsed])

\* search(query, top_k)
search(self, query, top_k, sim, llm, elapsed) ==
    answer_question(self, query, top_k, sim, llm, elapsed)

\* the documents of docs at the places of the set picked, in order
PickDocs(docs, picked) ==
    LET upto[n \in 0..Len(docs)] ==
            IF n = 0 THEN <<>>
            ELSE IF n \in picked THEN Append(upto[n - 1], docs[n])
                 ELSE upto[n - 1]
    IN  upto[Len(docs)]

\* self.vectorstore.similarity_search(query, k=k): at most k documents of
\* the store, possibly none, or an exception
SimilarityOutcomes(store, k) ==
    IF store = NoneValue THEN { Raise(ErrSearch) }
    ELSE { Ok(PickDocs(store.docs, picked)) :
              picked \in { p \in SUBSET (1..Len(store.docs)) :
                              Cardinality(p) <= k } }
         \cup { Raise(ErrSearch) }

\* what the other collaborators can answer
ReadOutcomes == { Ok(TextHi), Raise(ErrRead) }
AnalyzeOutcomes == { Ok(<<"c","a","t">>), Raise(ErrVision) }
ChromaOutcomes == { Ok(TRUE), Raise(ErrEmbedding) }
RagLLMOutcomes == { Ok(<<"y","e","s">>), Raise(ErrTimeout) }
Queries == { <<"q","?">> }

\* one call of a collaborator of MultimodalRAG
RagCall(fn, arg, r) == [fn |-> fn, arg |-> arg, ret |-> r]

\* a finished call of a method
RagEnd(method, end) == [kind |-> "ended", method |-> method, end |-> end]

AddTextDocument ==
    /\ Len(text_docs) + Len(image_docs) < MaxDocs
    /\ \E exists \in BOOLEAN, read \in ReadOutcomes, chroma \in ChromaOutcomes :
          LET after == add_text_document(RagSelf, TextFilePath, exists, read,
                                         chroma)
          IN  /\ text_docs' = after.self.text_docs
              /\ image_docs' = after.self.image_docs
              /\ vectorstore' = after.self.vectorstore
              /\ is_ready' = after.self.is_ready
              /\ rag_return' = RagEnd("add_text_document", after.end)
              /\ rag_log' = IF exists /\ read.ok
                            THEN <<RagCall("from_documents",
                                       after.self.text_docs
                                           \o after.self.image_docs, chroma)>>
                            ELSE <<>>
    /\ UNCHANGED <<pv_vars, tag_vars, conc_vars, side_vars>>

AddImageDocument ==
    /\ Len(text_docs) + Len(image_docs) < MaxDocs
    /\ \E exists \in BOOLEAN, analyzed \in AnalyzeOutcomes,
          chroma \in ChromaOutcomes :
          LET after == add_image_document(RagSelf, ImageFilePath, exists,
                                          analyzed, chroma)
          IN  /\ text_docs' = after.self.text_docs
              /\ image_docs' = after.self.image_docs
              /\ vectorstore' = after.self.vectorstore
              /\ is_ready' = after.self.is_ready
              /\ rag_return' = RagEnd("add_image_document", after.end)
              /\ rag_log' = IF exists /\ analyzed.ok
                            THEN <<RagCall("from_documents",
                                       after.self.text_docs
                                           \o after.self.image_docs, chroma)>>
                            ELSE <<>>
    /\ UNCHANGED <<pv_vars, tag_vars, conc_vars, side_vars>>

\* search(query) with the default top_k
Search ==
    /\ \E query \in Queries, sim \in SimilarityOutcomes(vectorstore, DefaultTopK),
          llm \in RagLLMOutcomes, elapsed \in Durations :
          LET reached == is_ready /\ vectorstore # NoneValue IN
          /\ rag_return' = RagEnd("search",
                               search(RagSelf, query, DefaultTopK, sim, llm,
                                      elapsed))
          /\ rag_log' =
                IF ~reached THEN <<>>
                ELSE IF ~sim.ok
                THEN <<RagCall("similarity_search", query, sim)>>
                ELSE <<RagCall("similarity_search", query, sim),
                       RagCall("llm.invoke",
                               [context |-> FullContext(sim.val),
                                question |-> query], llm)>>
    /\ UNCHANGED <<pv_vars, tag_vars, conc_vars, side_vars, text_docs,
                   image_docs, vectorstore, is_ready>>

\* what the PDF processor can answer: no chunk or one, no image or one
PdfFilePath == << <<"d">>, <<"c",".","p","d","f">> >>
PdfChunkOutcomes ==
    { Ok(<<>>),
      Ok(<< [page_content |-> TextHi,
             metadata |-> [source |-> PathStr(PdfFilePath), page |-> 1]] >>),
      Raise(ErrPdf) }
PdfImageOutcomes ==
    { Ok(<<>>),
      Ok(<< [page |-> 1, path |-> <<"p","1",".","p","n","g">>,
             filename |-> <<"p","1",".","p","n","g">>] >>),
      Raise(ErrPdf) }

AddPdfDocument ==
    /\ \E chunks \in PdfChunkOutcomes, images \in PdfImageOutcomes,
          a \in AnalyzeOutcomes, chroma \in ChromaOutcomes :
          LET after == add_pdf_document(RagSelf, PdfFilePath, chunks, images,
                                        <<a>>, chroma)
          IN  /\ text_docs' = after.self.text_docs
              /\ image_docs' = after.self.image_docs
              /\ vectorstore' = after.self.vectorstore
              /\ is_ready' = after.self.is_ready
              /\ rag_return' = RagEnd("add_pdf_document", after.end)
              /\ rag_log' = <<RagCall("extract_text_chunks",
                                      PathStr(PdfFilePath), chunks)>>
    /\ UNCHANGED <<pv_vars, tag_vars, conc_vars, side_vars>>

InitRag ==
    /\ InitCommon
    /\ retry_edge = FALSE
    /\ recursion_limit = RecursionLimit
    /\ ExtIdle

NextRag ==
    \/ AddTextDocument
    \/ AddImageDocument
    \/ AddPdfDocument
    \/ Search

SpecRag == InitRag /\ [][NextRag]_vars

(***************************************************************************)
(* the stage nodes called on a state record whose lists and dicts are      *)
(* objects: what a node does to the record it receives                     *)
(***************************************************************************)
\* every partial update, by value, the stage at a node can return for a
\* state record
StageUpdates(node, st) ==
    CASE node = "stt" ->
            { stt_node(st, r, elapsed) :
                  r \in TranscribeOutcomes, elapsed \in Durations }
      [] node = "cleaner" ->
            { cleaning_node(st, clean(st.original_text, llm)) :
                  llm \in CleanLLMOutcomes }
      [] node = "organizer" ->
            { organizing_node(st, organize(st.cleaned_text, llm)) :
                  llm \in OrganizeLLMOutcomes }
      [] node = "tagger" ->
            LET story_text == StoryText(st.organized_story, st.cleaned_text)
            IN  IF story_text.ok
                THEN { tagging_node(st, extract_tags(story_text.val, llm)) :
                           llm \in TagLLMOutcomes }
                ELSE { tagging_node(st, story_text) }

\* the keys whose value a node computes from the value in the state it
\* receives: two lists and a dict, held in the record by reference
RefFields == <<"processing_steps", "error_messages", "processing_time">>
RefFieldSet == { RefFields[i] : i \in 1..Len(RefFields) }

\* the state record with the objects in place of the references
Deref(h, st) ==
    [k \in DOMAIN st |-> IF k \in RefFieldSet THEN h[st[k]] ELSE st[k]]

\* a node's return with processing_steps built by list.append on the list
\* of the state it received
PartialUpdate_append_in_place(h, st, u) ==
    LET created == SelectSeq(RefFields,
                       LAMBDA f : f \in DOMAIN u /\ f # "processing_steps")
        RefOf(f) == Len(h) + CHOOSE i \in 1..Len(created) : created[i] = f
    IN  [heap |-> [h EXCEPT ![st.processing_steps] = u.processing_steps]
                  \o [i \in 1..Len(created) |-> u[created[i]]],
         update |-> [k \in DOMAIN u |->
                        IF k = "processing_steps" THEN st.processing_steps
                        ELSE IF k \in RefFieldSet THEN RefOf(k) ELSE u[k]]]

\* a node's return: `state[k] + [x]` and `{**state.get(k, {}), "stt": x}`
\* each build a new object.  u is the returned dict by value; the result
\* is the heap after the call and the dict holding the new references
PartialUpdate(h, st, u) ==
    LET created == SelectSeq(RefFields, LAMBDA f : f \in DOMAIN u)
        RefOf(f) == Len(h) + CHOOSE i \in 1..Len(created) : created[i] = f
    IN  [heap |-> h \o [i \in 1..Len(created) |-> u[created[i]]],
         update |-> [k \in DOMAIN u |->
                        IF k \in RefFieldSet THEN RefOf(k) ELSE u[k]]]

\* initial_state = VoiceProcessingState(..., processing_steps=[],
\* error_messages=[], processing_time={}, ...)
HeapInitialState ==
    /\ hpc = "idle"
    /\ \E path \in AudioPaths, sid \in SessionIds, now \in Timestamps :
          LET st == initial_state(path, sid, now) IN
          /\ heap' = [i \in 1..Len(RefFields) |-> st[RefFields[i]]]
          /\ hstate' = [k \in DOMAIN st |->
                          IF k \in RefFieldSet
                          THEN CHOOSE i \in 1..Len(RefFields) :
                                   RefFields[i] = k
                          ELSE st[k]]
    /\ hpc' = "stt"
    /\ UNCHANGED <<pv_vars, tag_vars, conc_vars, rag_vars, upload_vars,
                   switch_vars>>

\* the engine calls the node at hpc with the record it holds and merges
\* what the node returns
HeapStageCall(node) ==
    /\ hpc = node
    /\ \E u \in StageUpdates(node, Deref(heap, hstate)) :
          LET call == PartialUpdate(heap, hstate, u) IN
          /\ heap' = call.heap
          /\ hstate' = Merge(hstate, call.update)
    /\ hpc' = NextNode(node)
    /\ UNCHANGED <<pv_vars, tag_vars, conc_vars, rag_vars, upload_vars,
                   switch_vars>>

HeapSttNode == HeapStageCall("stt")
HeapCleanerNode == HeapStageCall("cleaner")
HeapOrganizerNode == HeapStageCall("organizer")
HeapTaggerNode == HeapStageCall("tagger")

NextObjects ==
    \/ HeapInitialState
    \/ HeapSttNode
    \/ HeapCleanerNode
    \/ HeapOrganizerNode
    \/ HeapTaggerNode

SpecObjects == Init /\ [][NextObjects]_vars

(***************************************************************************)
(* VoiceProcessingService.process_uploaded_audio: calls that share the     *)
(* temp file TEMP_DIR/temp_<original_filename>                             *)
(***************************************************************************)
\* the bytes of an uploaded file, in blocks of just over half the largest
\* accepted size: an upload of one block passes the size check, one of
\* two blocks does not
BlockBytes == (MAX_AUDIO_SIZE_MB * BytesPerMB) \div 2 + 1
UploadChoices(i) ==
    IF i = 1 THEN { <<"a1">>, <<"a1", "a2">> }
             ELSE { <<"b1">>, <<"b1", "b2">> }

\* "pa-il cheo-ri o-ryu: "
UploadErrorPrefix == <<"pa","il"," ","cheo","ri"," ","o","ryu",":"," ">>
ErrPermission == <<"d","e","n","i","e","d">>
ErrDiskFull == <<"f","u","l","l">>

\* open(temp_path, 'wb') and the file copy of shutil.copy: the file the
\* path names is emptied, or a new empty file is created under the path
open_wb(entry, fs) ==
    IF entry = 0
    THEN [entry |-> Len(fs) + 1, files |-> Append(fs, <<>>)]
    ELSE [entry |-> entry, files |-> [fs EXCEPT ![entry] = <<>>]]

\* f.write(data) on a file opened by 'wb', flushed when the with block
\* closes f: data replaces the content from the first byte on
write_from_start(content, data) ==
    data \o SubSeq(content, Len(data) + 1, Len(content))

\* Path.stat() of the temp path
stat(entry, fs) ==
    IF entry = 0 THEN Raise(ErrNoFile)
    ELSE Ok([st_size |-> Len(fs[entry]) * BlockBytes])

\* `except Exception as e` of process_uploaded_audio
upload_except(e, now) == ValidationResult(UploadErrorPrefix \o e, now)

\* temp_path.unlink() of the finally clause: the path names no file
finally_unlink(entry) == 0

\* what self.workflow.process_voice(str(temp_path)) returns to the
\* service, which passes it on unread: a ProcessingResult, never an
\* exception; a file that is gone when the workflow reads it cannot be
\* transcribed
WorkflowResult(ok, sid, now) ==
    [ValidationResult(IF ok THEN <<>> ELSE SttErrorPrefix \o ErrNoAudio, now)
        EXCEPT !.success = ok, !.session_id = sid]
WorkflowResults(found) ==
    { WorkflowResult(ok, sid, now) :
          ok \in IF found THEN BOOLEAN ELSE {FALSE},
          sid \in SessionIds, now \in Timestamps }

\* the step of call i that sets its locals to v
UploadTakes(i, v) == uploads' = [uploads EXCEPT ![i] = v]

\* the except clause caught e: the value to return is set and the finally
\* clause runs
UploadCaught(i, e, now) ==
    [uploads[i] EXCEPT !.caught = Raised(e),
                       !.result = upload_except(e, now),
                       !.pc = "finally"]

\* lines 54-60, opening: open(temp_path, 'wb'), or shutil.copy opening
\* its destination
UploadOpen(i) ==
    /\ uploads[i].pc = "idle"
    /\ \E data \in UploadChoices(i), now \in Timestamps,
          r \in {Ok(TRUE), Raise(ErrPermission)} :
          IF r.ok
          THEN /\ temp_entry' = open_wb(temp_entry, files).entry
               /\ files' = open_wb(temp_entry, files).files
               /\ UploadTakes(i, [uploads[i] EXCEPT
                      !.bytes = data, !.pc = "write",
                      !.f = open_wb(temp_entry, files).entry])
          ELSE /\ UploadTakes(i, [UploadCaught(i, r.err, now) EXCEPT
                                      !.bytes = data])
               /\ UNCHANGED <<temp_entry, files>>
    /\ UNCHANGED <<pv_vars, tag_vars, conc_vars, rag_vars, heap_vars,
                   switch_vars>>

\* lines 56-60, writing: the bytes reach the file f, whether or not the
\* path still names it
UploadWrite(i) ==
    /\ uploads[i].pc = "write"
    /\ \E now \in Timestamps, r \in {Ok(TRUE), Raise(ErrDiskFull)} :
          IF r.ok
          THEN /\ files' = [files EXCEPT ![uploads[i].f] =
                               write_from_start(@, uploads[i].bytes)]
               /\ UploadTakes(i, [uploads[i] EXCEPT !.pc = "exists"])
          ELSE /\ UploadTakes(i, UploadCaught(i, r.err, now))
               /\ files' = files
    /\ UNCHANGED <<pv_vars, tag_vars, conc_vars, rag_vars, heap_vars,
                   switch_vars, temp_entry>>

\* process_audio_file, line 28: Path(audio_file_path).exists()
UploadExists(i) ==
    /\ uploads[i].pc = "exists"
    /\ \E now \in Timestamps :
          IF temp_entry # 0
          THEN UploadTakes(i, [uploads[i] EXCEPT !.pc = "stat"])
          ELSE UploadTakes(i, [uploads[i] EXCEPT
                   !.result = process_audio_file(
                                  FALSE, Raise(ErrNoFile), now).value,
                   !.pc = "finally"])
    /\ UNCHANGED <<pv_vars, tag_vars, conc_vars, rag_vars, heap_vars,
                   switch_vars, temp_entry, files>>

\* process_audio_file, lines 36-42: stat() and the size check; an
\* exception of stat() is caught by process_uploaded_audio's except
UploadStat(i) ==
    /\ uploads[i].pc = "stat"
    /\ \E now \in Timestamps :
          LET end == process_audio_file(TRUE, stat(temp_entry, files), now)
          IN  CASE end.kind = "return" ->
                     UploadTakes(i, [uploads[i] EXCEPT
                         !.result = end.value, !.pc = "finally"])
                [] end.kind = "raise" ->
                     UploadTakes(i, UploadCaught(i, end.err, now))
                [] end.kind = "none" ->
                     UploadTakes(i, [uploads[i] EXCEPT !.pc = "process"])
    /\ UNCHANGED <<pv_vars, tag_vars, conc_vars, rag_vars, heap_vars,
                   switch_vars, temp_entry, files>>

\* process_audio_file, line 45: the workflow reads what the path names
\* now and returns its result
UploadProcessVoice(i) ==
    /\ uploads[i].pc = "process"
    /\ \E result \in WorkflowResults(temp_entry # 0) :
          UploadTakes(i, [uploads[i] EXCEPT
              !.read = IF temp_entry # 0
                       THEN [kind |-> "bytes", bytes |-> files[temp_entry]]
                       ELSE [kind |-> "missing"],
              !.result = result,
              !.pc = "finally"])
    /\ UNCHANGED <<pv_vars, tag_vars, conc_vars, rag_vars, heap_vars,
                   switch_vars, temp_entry, files>>

\* finally, line 75: temp_path.exists()
UploadFinallyExists(i) ==
    /\ uploads[i].pc = "finally"
    /\ IF temp_entry # 0
       THEN UploadTakes(i, [uploads[i] EXCEPT !.pc = "unlink"])
       ELSE UploadTakes(i, [uploads[i] EXCEPT
                !.end = Return(uploads[i].result), !.pc = "done"])
    /\ UNCHANGED <<pv_vars, tag_vars, conc_vars, rag_vars, heap_vars,
                   switch_vars, temp_entry, files>>

\* finally, line 76: temp_path.unlink(), which raises FileNotFoundError
\* out of the finally clause when the path names no file any more
UploadFinallyUnlink(i) ==
    /\ uploads[i].pc = "unlink"
    /\ IF temp_entry # 0
       THEN /\ temp_entry' = finally_unlink(temp_entry)
            /\ UploadTakes(i, [uploads[i] EXCEPT
                   !.end = Return(uploads[i].result), !.pc = "done"])
       ELSE /\ temp_entry' = temp_entry
            /\ UploadTakes(i, [uploads[i] EXCEPT
                   !.end = Propagate(ErrNoFile), !.pc = "done"])
    /\ UNCHANGED <<pv_vars, tag_vars, conc_vars, rag_vars, heap_vars,
                   switch_vars, files>>

\* one step of the call of thread i
UploadStep(i) ==
    \/ UploadOpen(i)
    \/ UploadWrite(i)
    \/ UploadExists(i)
    \/ UploadStat(i)
    \/ UploadProcessVoice(i)
    \/ UploadFinallyExists(i)
    \/ UploadFinallyUnlink(i)

\* the calls made by two threads at once
NextUploads == \E i \in CallIds : UploadStep(i)

SpecUploads == Init /\ [][NextUploads]_vars

(***************************************************************************)
(* VoiceProcessingService.switch_provider                                  *)
(***************************************************************************)
\* the most switch_provider calls made on one service
MaxSwitches == 4

Providers == {"ollama", "openai"}
ErrConstruct == <<"i","n","i","t">>

\* VoiceProcessingWorkflow(llm_provider=p): a workflow built for p, or an
\* exception of one of the constructors it calls
WorkflowOutcomes(p) == { Ok([llm_provider |-> p]), Raise(ErrConstruct) }

\* switch_provider, lines 92-100; built is the outcome of
\* VoiceProcessingWorkflow(llm_provider=new_provider)
switch_provider(self, new_provider, built) ==
    LET assigned == [self EXCEPT !.llm_provider = new_provider,
                                 !.llm_config = get_llm_config]
    IN  IF built.ok
        THEN [self |-> [assigned EXCEPT !.workflow = built.val],
              end |-> Return(TRUE)]
        ELSE [self |-> assigned, end |-> Return(FALSE)]

SwitchProvider ==
    /\ Len(switch_log) < MaxSwitches
    /\ \E new_provider \in Providers :
          \E built \in WorkflowOutcomes(new_provider) :
              LET call == switch_provider(service, new_provider, built) IN
              /\ service' = call.self
              /\ switch_log' = Append(switch_log,
                     [new_provider |-> new_provider, built |-> built,
                      before |-> service, end |-> call.end])
    /\ UNCHANGED <<pv_vars, tag_vars, conc_vars, rag_vars, heap_vars,
                   upload_vars>>

NextSwitch == SwitchProvider

SpecSwitch == Init /\ [][NextSwitch]_vars

(***************************************************************************)
(* properties                                                              *)
(***************************************************************************)
Done == pc = "done"
\* process_audio_file ended before calling process_voice
Rejected == pc = "rejected"
ViaGraph == Done /\ ~engine_error.raised
ViaFallback == Done /\ engine_error.raised
Result == completion.value

FallbackPcs == {"fb_stt", "fb_clean", "fb_organize", "fb_tag"}

\* the fields of the dataclass ProcessingResult
ResultFields ==
    {"success", "session_id", "original_text", "cleaned_text",
     "organized_story", "tags", "processing_info", "error_message",
     "created_at"}

\* the calls one path made to one collaborator
CallsOf(fn, path) ==
    SelectSeq(call_log, LAMBDA c : c.fn = fn /\ c.path = path)

CollaboratorNames == {"transcribe", "clean", "organize", "extract_tags"}

\* whether s begins with prefix
StartsWith(s, prefix) ==
    Len(s) >= Len(prefix) /\ SubSeq(s, 1, Len(prefix)) = prefix

\* C1: process_voice never raises to its caller and, whatever the
\* collaborators and the engine do, goes on until it returns a
\* ProcessingResult: no call ends by an exception, a finished call has
\* returned a record with the fields of ProcessingResult, and an
\* unfinished call (one the service did not turn away before
\* process_voice) can always take a step.
C1_NeverRaises ==
    /\ completion.kind # "raise"
    /\ Done => /\ completion.kind = "return"
               /\ DOMAIN Result = ResultFields
               /\ Result.success \in BOOLEAN
    /\ ~Done => completion.kind = "none"
    /\ ~(Done \/ Rejected) => ENABLED Next

\* C1 witness: the engine raised, a fallback collaborator raised too, and
\* process_voice has returned
C1_Witness ==
    /\ ViaFallback
    /\ \E i \in 1..Len(call_log) :
          call_log[i].path = "fallback" /\ ~call_log[i].ret.ok
    /\ \E i \in 1..Len(call_log) :
          call_log[i].path = "graph" /\ ~call_log[i].ret.ok

\* the two names a stage can append to processing_steps
StageStepNames ==
    << {"stt_complete", "stt_failed"},
       {"cleaning_complete", "cleaning_failed"},
       {"organizing_complete", "organizing_failed"},
       {"tagging_complete", "tagging_failed"} >>

\* C2: when process_voice returns through the graph path,
\* processing_info["steps"] has exactly four entries and the i-th one
\* names the i-th stage (stt, cleaning, organizing, tagging), as
\* complete or as failed.
C2_FourStepsInOrder ==
    ViaGraph =>
        LET steps == Result.processing_info.steps IN
        /\ Len(steps) = 4
        /\ \A i \in 1..4 : steps[i] \in StageStepNames[i]

\* C2 witness: a graph-path return in which some stage recorded an error
\* and some stage completed
C2_Witness ==
    /\ ViaGraph
    /\ \E i \in 1..Len(Result.processing_info.steps) :
          Result.processing_info.steps[i] = "cleaning_failed"
    /\ \E i \in 1..Len(Result.processing_info.steps) :
          Result.processing_info.steps[i] = "organizing_complete"

GateOutcomes == {"success", "insufficient_content", "failed"}

\* C3: the quality gate is defined on every state that reaches it and
\* has exactly three outcomes, in this priority: failed when
\* error_messages is not empty; otherwise insufficient_content when
\* cleaned_text stripped is shorter than 10 characters; otherwise
\* success.  It never answers with a retry.
C3_QualityGate ==
    /\ pc = "gate" => quality_check_node(state) \in GateOutcomes
    /\ outcome # "none" =>
          LET errors == state.error_messages
              trimmed == Strip(state.cleaned_text)
          IN  /\ outcome \in GateOutcomes
              /\ outcome # "retry_stt"
              /\ errors # <<>> => outcome = "failed"
              /\ errors = <<>> /\ Len(trimmed) < 10 =>
                     outcome = "insufficient_content"
              /\ errors = <<>> /\ Len(trimmed) >= 10 =>
                     outcome = "success"

\* C3 witness: the gate has answered for a state with a recorded error
\* and a short, non-empty cleaned_text, the case the priority decides
C3_Witness ==
    /\ outcome # "none"
    /\ state.error_messages # <<>>
    /\ state.cleaned_text = TextHi

\* the cleaned text of the finished run, on whichever path produced it
RunCleanedText ==
    IF engine_error.raised THEN Result.cleaned_text ELSE state.cleaned_text

\* no stage of the finished run recorded an error
RunRecordedNoError ==
    IF engine_error.raised THEN Result.success ELSE state.error_messages = <<>>

\* C4 as claimed: every finished run without a recorded error whose
\* cleaned_text trims to fewer than 10 characters has the terminal
\* outcome insufficient_content.
C4_AsClaimed ==
    (Done /\ RunRecordedNoError /\ Len(Strip(RunCleanedText)) < 10) =>
        outcome = "insufficient_content"

\* C4 amended: every run that returns through the graph path (invoke did
\* not raise) without a recorded error and with a cleaned_text that trims
\* to fewer than 10 characters has the terminal outcome
\* insufficient_content, not success.
C4_GraphInsufficient ==
    (ViaGraph /\ state.error_messages = <<>>
              /\ Len(Strip(state.cleaned_text)) < 10) =>
        /\ outcome = "insufficient_content"
        /\ outcome # "success"

\* C4 witness: a graph-path run without errors whose cleaned_text is the
\* nine characters left of " 123456789 "
C4_Witness ==
    /\ ViaGraph
    /\ state.error_messages = <<>>
    /\ state.cleaned_text = TextNine

\* the entries of msgs with "; " between them, written out for the at
\* most four entries four stages can record
JoinedErrors(msgs) ==
    CASE Len(msgs) = 0 -> <<>>
      [] Len(msgs) = 1 -> msgs[1]
      [] Len(msgs) = 2 -> msgs[1] \o <<";"," ">> \o msgs[2]
      [] Len(msgs) = 3 -> msgs[1] \o <<";"," ">> \o msgs[2]
                          \o <<";"," ">> \o msgs[3]
      [] Len(msgs) = 4 -> msgs[1] \o <<";"," ">> \o msgs[2]
                          \o <<";"," ">> \o msgs[3]
                          \o <<";"," ">> \o msgs[4]

\* C5: on the graph path the result has success true exactly when the
\* terminal error_messages is empty, carries original_text,
\* cleaned_text, organized_story and extracted_tags of the terminal
\* state, and its error_message is the error_messages entries in their
\* order with "; " between them (empty when there are none).
C5_ResultAssembler ==
    ViaGraph =>
        /\ Result.success = (state.error_messages = <<>>)
        /\ Result.original_text = state.original_text
        /\ Result.cleaned_text = state.cleaned_text
        /\ Result.organized_story = state.organized_story
        /\ Result.tags = state.extracted_tags
        /\ Len(state.error_messages) <= 4
        /\ Result.error_message = JoinedErrors(state.error_messages)

\* C5 witness: a graph-path result assembled from a state with two or
\* more recorded errors
C5_Witness ==
    /\ ViaGraph
    /\ Len(state.error_messages) >= 2
    /\ state.original_text # <<>>

\* transcribe raised when the stt node of the graph called it
GraphSttRaised ==
    \E i \in 1..Len(call_log) :
        /\ call_log[i].fn = "transcribe"
        /\ call_log[i].path = "graph"
        /\ ~call_log[i].ret.ok

\* the positions of error_messages that hold an STT error
SttEntries(msgs) ==
    {i \in 1..Len(msgs) : StartsWith(msgs[i], SttErrorPrefix)}

\* C6: when transcribe raises on the graph path, the stt node sets
\* original_text to a non-empty placeholder and records exactly one STT
\* error; the cleaning, organizing and tagging stages still execute (the
\* cleaning collaborator is called with the placeholder), and the result
\* returned has success = false.
C6_SttFailureContinues ==
    /\ (GraphSttRaised /\ ~engine_error.raised) =>
          /\ state.original_text # <<>>
          /\ Cardinality(SttEntries(state.error_messages)) = 1
    /\ (GraphSttRaised /\ ViaGraph) =>
          /\ Len(state.processing_steps) = 4
          /\ \A i \in 2..4 : state.processing_steps[i] \in StageStepNames[i]
          /\ Len(CallsOf("clean", "graph")) = 1
          /\ CallsOf("clean", "graph")[1].arg = state.original_text
          /\ Len(CallsOf("organize", "graph")) = 1
          /\ Result.success = FALSE

\* C6 witness: transcribe raised on the graph path, the three later
\* stages completed and process_voice returned
C6_Witness ==
    /\ GraphSttRaised
    /\ ViaGraph
    /\ state.processing_steps =
          <<"stt_failed", "cleaning_complete", "organizing_complete",
            "tagging_complete">>

\* C7: the fallback runs if and only if invoke raised.  It is entered,
\* and makes a call, only after invoke raised; once invoke has raised the
\* run is in the fallback or has finished after the fallback's first
\* call; and a run that returns through the graph path, with or without
\* captured stage errors, has called each collaborator at most once and
\* never from the fallback.
C7_FallbackIffEngineRaise ==
    /\ (pc \in FallbackPcs) => engine_error.raised
    /\ \A i \in 1..Len(call_log) :
          call_log[i].path = "fallback" => engine_error.raised
    /\ engine_error.raised =>
          /\ pc \in FallbackPcs \cup {"done"}
          /\ Done => Len(CallsOf("transcribe", "fallback")) = 1
    /\ ViaGraph =>
          \A fn \in CollaboratorNames :
              /\ Len(CallsOf(fn, "graph")) <= 1
              /\ Len(CallsOf(fn, "fallback")) = 0

\* C7 witness: two stages captured an error, invoke returned normally and
\* process_voice returned the graph result
C7_Witness ==
    /\ ViaGraph
    /\ Len(state.error_messages) = 2
    /\ outcome = "failed"

\* C8: when invoke raised and a collaborator call of the fallback then
\* raises, the fallback stops there: that call is the last one made, no
\* collaborator was called twice by the fallback, and process_voice has
\* returned a result with success = false whose error_message contains
\* the text of the engine's exception and the text of the fallback's.
C8_FallbackFailure ==
    \A i \in 1..Len(call_log) :
        (call_log[i].path = "fallback" /\ ~call_log[i].ret.ok) =>
            /\ engine_error.raised
            /\ Done
            /\ i = Len(call_log)
            /\ \A fn \in CollaboratorNames :
                   Len(CallsOf(fn, "fallback")) <= 1
            /\ completion.kind = "return"
            /\ Result.success = FALSE
            /\ Contains(Result.error_message, engine_error.err)
            /\ Contains(Result.error_message, call_log[i].ret.err)

\* C8 witness: invoke raised, the fallback's transcribe and clean
\* succeeded, its organize raised, and process_voice has returned
C8_Witness ==
    /\ ViaFallback
    /\ Len(CallsOf("organize", "fallback")) = 1
    /\ ~CallsOf("organize", "fallback")[1].ret.ok

\* the graph ran its four stages and none recorded an error
AllGraphStagesOk ==
    /\ state.processing_steps =
          <<"stt_complete", "cleaning_complete", "organizing_complete",
            "tagging_complete">>
    /\ state.error_messages = <<>>

\* each collaborator was called once on each path and returned the same
\* value on both
SameReturns ==
    \A fn \in CollaboratorNames :
        /\ Len(CallsOf(fn, "graph")) = 1
        /\ Len(CallsOf(fn, "fallback")) = 1
        /\ CallsOf(fn, "graph")[1].ret.ok
        /\ CallsOf(fn, "graph")[1].ret = CallsOf(fn, "fallback")[1].ret

\* C10: when the four collaborators succeed with the same values on both
\* paths, the result the graph path assembles from its merged state and
\* the result the fallback returns have the same original_text,
\* cleaned_text, organized_story and tags.
C10_PathParity ==
    (ViaFallback /\ AllGraphStagesOk /\ SameReturns) =>
        LET graph == GraphResult(session_id, state, Result.created_at) IN
        /\ Result.success
        /\ Result.original_text = graph.original_text
        /\ Result.cleaned_text = graph.cleaned_text
        /\ Result.organized_story = graph.organized_story
        /\ Result.tags = graph.tags

\* C10 witness: the graph ran all four stages, invoke raised afterwards,
\* and the fallback got the same values and returned; the document has
\* two sections and the cleaned text differs from the transcript
C10_Witness ==
    /\ ViaFallback
    /\ AllGraphStagesOk
    /\ SameReturns
    /\ state.organized_story = StoryTwoSections
    /\ state.cleaned_text # state.original_text

\* C9: with the edge tagger -> stt back in the graph and a recursion
\* limit N, the engine runs at most N nodes and never reaches the gate or
\* END; when N nodes have run it can only raise; a finished run went
\* through the raise of invoke and the fallback, and process_voice
\* returned a result; an unfinished run can always take a step.
C9_RetryEdgeBounded ==
    /\ steps_run <= recursion_limit
    /\ retry_edge =>
          /\ pc \notin {"gate", "end"}
          /\ outcome = "none"
          /\ (pc \in GraphNodes /\ steps_run = recursion_limit) =>
                /\ ENABLED RecursionLimitReached
                /\ ~ENABLED (SttNode \/ CleanerNode \/ OrganizerNode
                              \/ TaggerNode)
          /\ Done =>
                /\ engine_error.raised
                /\ Len(CallsOf("transcribe", "fallback")) = 1
                /\ completion.kind = "return"
                /\ DOMAIN Result = ResultFields
          /\ ~(Done \/ Rejected) => ENABLED NextBounded

\* C9 witness: with the retry edge the engine went round the loop, ran
\* out of steps at the limit, invoke raised for that, and the fallback
\* returned a successful result
C9_Witness ==
    /\ retry_edge
    /\ Done
    /\ recursion_limit > 4
    /\ steps_run = recursion_limit
    /\ engine_error = Raised(ErrRecursion)
    /\ Result.success

\* the output fields the stages before a node have set
EarlierOutputs(node) ==
    CASE node = "stt" -> {}
      [] node = "cleaner" ->
            {"original_text", "stt_confidence", "processing_time"}
      [] node = "organizer" ->
            {"original_text", "stt_confidence", "processing_time",
             "cleaned_text", "removed_fillers"}
      [] node = "tagger" ->
            {"original_text", "stt_confidence", "processing_time",
             "cleaned_text", "removed_fillers", "organized_story"}

\* one step taken while the engine is at a stage keeps both lists as
\* prefixes, and keeps the earlier outputs when it adds an error
AppendOnlyStep ==
    pc \in GraphNodes =>
        /\ StartsWith(state'.processing_steps, state.processing_steps)
        /\ StartsWith(state'.error_messages, state.error_messages)
        /\ Len(state'.error_messages) > Len(state.error_messages) =>
              \A f \in EarlierOutputs(pc) : state'[f] = state[f]

\* C11: on the graph path every step of a stage leaves the old
\* processing_steps and the old error_messages as prefixes of the new
\* ones, and a stage that adds an error changes no output field that an
\* earlier stage has set.
C11_AppendOnly == [][AppendOnlyStep]_vars

\* C11 witness: recognition failed and recorded its error, then cleanup
\* failed too: both errors and both step names are in the lists, and the
\* dummy transcript recognition left is still there
C11_Witness ==
    /\ pc = "organizer"
    /\ state.processing_steps = <<"stt_failed", "cleaning_failed">>
    /\ Len(state.error_messages) = 2
    /\ StartsWith(state.error_messages[1], SttErrorPrefix)
    /\ state.original_text = DummyText

\* process_voice has been entered: initial_state exists
InProcessVoice == pc \notin {"idle", "called", "rejected"}

\* the ids of a run in progress: the state record holds the local
\* session_id and the argument, and a returned result holds that
\* session_id
SessionCarried ==
    /\ InProcessVoice =>
          /\ session_id \in SessionIds
          /\ state.session_id = session_id
          /\ state.audio_file_path = audio_file_path
    /\ Done => Result.session_id = session_id

\* no step of a run in progress changes the ids, in the locals of
\* process_voice or in the state record
SessionFixedStep ==
    InProcessVoice =>
        /\ session_id' = session_id
        /\ audio_file_path' = audio_file_path
        /\ state'.session_id = state.session_id
        /\ state'.audio_file_path = state.audio_file_path

\* C12: session_id is set once, when process_voice builds initial_state,
\* and audio_file_path is the argument; no stage, gate or fallback step
\* changes either, in the locals or in the state record, and the result
\* of the graph path, of a successful fallback and of a failed fallback
\* carries that session_id.
C12_SessionFixed == []SessionCarried /\ [][SessionFixedStep]_vars

\* C12 witness: the four stages ran, invoke raised, the fallback failed,
\* and the failed result carries the id the state record was built with
C12_Witness ==
    /\ ViaFallback
    /\ ~Result.success
    /\ Len(state.processing_steps) = 4
    /\ Result.session_id = state.session_id
    /\ Result.session_id \in SessionIds

\* exists() answered that the path is not there
SawMissing == fs_log # <<>> /\ ~fs_log[1].ret.val

\* stat() answered a size of more than MAX_AUDIO_SIZE_MB megabytes
SawOversize ==
    /\ Len(fs_log) = 2
    /\ fs_log[2].ret.ok
    /\ fs_log[2].ret.val.st_size > MAX_AUDIO_SIZE_MB * 1024 * 1024

\* C13: when the path does not exist or the file is larger than
\* MAX_AUDIO_SIZE_MB, process_audio_file ends at once with a failed
\* result of its own (empty session_id, the message of the validation
\* that failed), no collaborator has been called, process_voice has not
\* been entered and nothing runs afterwards; no result of a run has an
\* empty session_id or one of these messages.
C13_FailFast ==
    /\ (SawMissing \/ SawOversize) =>
          /\ Rejected
          /\ service_return.kind = "return"
          /\ ~service_return.value.success
          /\ service_return.value.session_id = ""
          /\ IF SawMissing
             THEN service_return.value.error_message = NotFoundMessage
             ELSE StartsWith(service_return.value.error_message,
                             TooLargePrefix)
          /\ call_log = <<>>
          /\ ~InProcessVoice
          /\ state = EmptyDict /\ session_id = "" /\ steps_run = 0
          /\ completion = NotEnded
          /\ ~ENABLED Next
    /\ Done =>
          /\ Result.session_id # ""
          /\ Result.error_message # NotFoundMessage
          /\ ~StartsWith(Result.error_message, TooLargePrefix)

\* C13 witness: the file is one byte over 50 MB and the call was turned
\* away with the message "... (50.0MB > 50MB)"
C13_Witness ==
    /\ Rejected
    /\ SawOversize
    /\ fs_log[2].ret.val.st_size = 52428801
    /\ service_return.value.error_message =
          TooLargePrefix
              \o <<"5","0",".","0","M","B"," ",">"," ","5","0","M","B",")">>

\* the place of the first occurrence of tag in matches
FirstSeen(tag, matches) ==
    CHOOSE i \in 1..Len(matches) :
        /\ matches[i] = tag
        /\ \A j \in 1..(i - 1) : matches[j] # tag

\* C14: whatever sequence of hashtags the reply holds, the list
\* extract_tags returns has no duplicates, holds only hashtags of the
\* reply, in the order of their first occurrences, has min(8, number of
\* distinct hashtags) entries, and leaves out a hashtag only if 8 others
\* were seen before it.
C14_FirstEightDistinct ==
    tags_out.kind = "return" =>
        LET out == tags_out.value
            matches == raw_matches
            seen == { matches[i] : i \in 1..Len(matches) }
        IN  /\ \A i, j \in 1..Len(out) : i # j => out[i] # out[j]
            /\ \A i \in 1..Len(out) : out[i] \in seen
            /\ \A i \in 1..(Len(out) - 1) :
                  FirstSeen(out[i], matches) < FirstSeen(out[i + 1], matches)
            /\ Len(out) <= 8
            /\ Len(out) = IF Cardinality(seen) < 8
                          THEN Cardinality(seen) ELSE 8
            /\ \A k \in 1..Len(matches) :
                  (\A i \in 1..Len(out) : out[i] # matches[k]) =>
                      /\ Len(out) = 8
                      /\ FirstSeen(out[8], matches) < k

\* C14 witness: a reply of nine different hashtags; the first eight came
\* back and the ninth did not
C14_Witness ==
    /\ tags_out.kind = "return"
    /\ raw_matches =
          <<TagOf(1), TagOf(2), TagOf(3), TagOf(4), TagOf(5), TagOf(6),
            TagOf(7), TagOf(8), TagOf(9)>>
    /\ tags_out.value =
          <<TagOf(1), TagOf(2), TagOf(3), TagOf(4), TagOf(5), TagOf(6),
            TagOf(7), TagOf(8)>>

\* the locals and the state record of a call that runs alone and gets
\* the answers of inputs, one after the other
RECURSIVE Alone(_)
Alone(inputs) ==
    IF inputs = <<>>
    THEN [k \in DOMAIN IdleLocal \cup {"state"} |->
             IF k = "state" THEN EmptyDict ELSE IdleLocal[k]]
    ELSE RunStep(Alone(SubSeq(inputs, 1, Len(inputs) - 1)),
                 inputs[Len(inputs)])

\* C15: with two threads in process_voice on one workflow, under every
\* interleaving of their steps, each call has a state record and a
\* session_id of its own, and its locals, its state record and its result
\* are at every moment those of a call that runs alone and gets the same
\* answers from the collaborators.
C15_RunsIndependent ==
    /\ \A i \in RunIds : RunView(i) = Alone(runs[i].inputs)
    /\ \A i \in RunIds :
          ~RunAt(i, "idle") =>
              /\ slots[StateSlot(i)].session_id = runs[i].local.session_id
              /\ \A j \in RunIds \ {i} :
                    runs[j].local.session_id # runs[i].local.session_id

\* C15 witness: both calls are under way at the same time, one at the
\* gate after four successful stages, the other in its fallback after
\* three failed stages and a raise of invoke
C15_Witness ==
    /\ RunAt(1, "gate")
    /\ slots[1].processing_steps =
          <<"stt_complete", "cleaning_complete", "organizing_complete",
            "tagging_complete">>
    /\ RunAt(2, "fb_organize")
    /\ slots[2].processing_steps =
          <<"stt_failed", "cleaning_failed", "organizing_complete",
            "tagging_failed">>

\* whether a step name is in the processing_steps of the state record
StepRecorded(name) ==
    /\ InProcessVoice
    /\ \E i \in 1..Len(state.processing_steps) :
          state.processing_steps[i] = name

\* C16: on the graph path a stage that captured an error leaves
\* substitute data in the fields it was to produce (a transcript after a
\* failed recognition, a cleaned text after a failed cleanup, a document
\* after a failed structuring, tags after a failed tagging), and after a
\* failed cleanup neither organize nor extract_tags is called with an
\* empty text.
C16_SubstituteData ==
    /\ StepRecorded("stt_failed") => state.original_text # <<>>
    /\ StepRecorded("cleaning_failed") => state.cleaned_text # <<>>
    /\ StepRecorded("organizing_failed") => state.organized_story # EmptyDict
    /\ StepRecorded("tagging_failed") => state.extracted_tags # <<>>
    /\ StepRecorded("cleaning_failed") =>
          /\ \A i \in 1..Len(CallsOf("organize", "graph")) :
                CallsOf("organize", "graph")[i].arg # <<>>
          /\ \A i \in 1..Len(CallsOf("extract_tags", "graph")) :
                CallsOf("extract_tags", "graph")[i].arg # <<>>

\* a reply of the structuring LLM that parses into the expected shape: a
\* JSON object with title, summary and a list of sections that each have
\* a content
ParsesToShape(reply) ==
    /\ reply.valid
    /\ IsDict(reply.value)
    /\ HasKey(reply.value, "title")
    /\ HasKey(reply.value, "summary")
    /\ HasKey(reply.value, "sections")
    /\ \A i \in 1..Len(reply.value.sections) :
          HasKey(reply.value.sections[i], "content")

\* a document of one section whose content is text
SingleSectionOf(doc, text) ==
    /\ IsDict(doc)
    /\ HasKey(doc, "sections")
    /\ Len(doc.sections) = 1
    /\ HasKey(doc.sections[1], "content")
    /\ doc.sections[1].content = text

\* C17: on both paths, whenever the structuring LLM gave a reply that
\* does not parse into the expected shape, organize returned a document
\* of one section whose content is exactly the cleaned text it was given,
\* and on the graph path no organizing error was recorded.
C17_UnparsableGivesSingleSection ==
    \A i \in 1..Len(call_log) :
        LET c == call_log[i] IN
        (c.fn = "organize" /\ c.reply.ok /\ ~ParsesToShape(c.reply.val)) =>
            /\ c.ret.ok
            /\ SingleSectionOf(c.ret.val, c.arg)
            /\ c.path = "graph" => ~StepRecorded("organizing_failed")

\* C18: after a run of the graph path the processing_time mapping of the
\* state record, which the result hands out, has an entry for each of
\* the four stages, whether the stage succeeded or recorded an error.
C18_FourStageDurations ==
    ViaGraph =>
        /\ Len(state.processing_steps) = 4
        /\ Cardinality(DOMAIN state.processing_time) = 4
        /\ Result.processing_info.processing_time = state.processing_time

\* "geom-saek jung o-ryu-ga bal-saeng-haess-seup-ni-da", the words
\* test_error_handling looks for in the answer
SearchErrorWords ==
    <<"geom","saek"," ","jung"," ","o","ryu","ga"," ","bal","saeng","haess",
      "seup","ni","da">>

\* the last call was search, and the vector store answered sim to it
SearchGot(sim_ok) ==
    /\ rag_return # NotEnded
    /\ rag_return.method = "search"
    /\ rag_log # <<>>
    /\ rag_log[1].ret.ok = sim_ok

\* C19: search never raises to its caller; when the similarity search
\* of the vector store raised, search returned a SearchResult whose
\* answer reports a search error; when it found no document, search
\* returned a SearchResult with no sources and confidence 0.0.
C19_SearchNeverRaises ==
    /\ (rag_return # NotEnded /\ rag_return.method = "search") =>
          rag_return.end.kind = "return"
    /\ SearchGot(FALSE) =>
          /\ rag_return.end.kind = "return"
          /\ Contains(rag_return.end.value.answer, SearchErrorWords)
    /\ (SearchGot(TRUE) /\ rag_log[1].ret.val = <<>>) =>
          /\ rag_return.end.kind = "return"
          /\ rag_return.end.value.sources = <<>>
          /\ rag_return.end.value.confidence.num = 0

\* the number of stages that have run when the engine is at a place
StagesBefore(where) ==
    CASE where = "stt" -> 0
      [] where = "cleaner" -> 1
      [] where = "organizer" -> 2
      [] where = "tagger" -> 3
      [] OTHER -> 4

\* on the graph path the place of the engine tells which stages have run:
\* the first k, once each and in order; the gate has answered exactly
\* when the engine is past it
StagesInSequence ==
    (InProcessVoice /\ ~engine_error.raised) =>
        /\ steps_run = StagesBefore(pc)
        /\ Len(state.processing_steps) = steps_run
        /\ \A i \in 1..steps_run :
              state.processing_steps[i] \in StageStepNames[i]
        /\ \A fn \in CollaboratorNames : Len(CallsOf(fn, "graph")) <= 1
        /\ (outcome = "none") = (pc \in GraphNodes \cup {"gate"})
        /\ outcome # "none" => outcome \in GateOutcomes

\* once the gate has answered, a run that stays on the graph path runs no
\* stage, calls no collaborator and does not ask the gate again
NothingAfterGate ==
    (outcome # "none" /\ ~engine_error'.raised) =>
        /\ state' = state
        /\ steps_run' = steps_run
        /\ call_log' = call_log
        /\ outcome' = outcome
        /\ pc' \in {"end", "done"}

\* C20: on the graph path the four stages run once each, in order,
\* whether or not one of them failed; the gate answers once, after the
\* tagging stage; after its answer no stage runs any more; and every
\* call comes to its end (a result, or the service's refusal before the
\* run).
C20_StagesOnceThenTerminal ==
    /\ []StagesInSequence
    /\ [][NothingAfterGate]_vars
    /\ <>(Done \/ Rejected)

\* C20 witness: all four stages failed, each ran once, the gate answered
\* failed and the run returned
C20_Witness ==
    /\ ViaGraph
    /\ outcome = "failed"
    /\ steps_run = 4
    /\ state.processing_steps =
          <<"stt_failed", "cleaning_failed", "organizing_failed",
            "tagging_failed">>

\* the step name a stage appends when its try block raised, the prefix of
\* the error it appends then, and the collaborator the stage calls
FailedStepNames ==
    <<"stt_failed", "cleaning_failed", "organizing_failed", "tagging_failed">>
StageErrorPrefixes ==
    <<SttErrorPrefix, CleaningErrorPrefix, OrganizingErrorPrefix,
      TaggingErrorPrefix>>
StageCollaborators == <<"transcribe", "clean", "organize", "extract_tags">>

\* the stages, in order, whose step entry says failed
FailedStages(steps) ==
    SelectSeq([i \in 1..Len(steps) |-> i],
              LAMBDA i : steps[i] = FailedStepNames[i])

\* the graph-path call of the i-th stage's collaborator raised
StageCallFailed(i) ==
    \E n \in 1..Len(CallsOf(StageCollaborators[i], "graph")) :
        ~CallsOf(StageCollaborators[i], "graph")[n].ret.ok

\* C21: on the graph path, after k stages processing_steps has k entries,
\* one per stage; error_messages has one entry per failed step, in stage
\* order, each the error of that stage; and a stage's step says failed
\* exactly when the call of its collaborator failed.
C21_OneStepOneErrorPerStage ==
    (InProcessVoice /\ ~engine_error.raised) =>
        LET steps == state.processing_steps
            errors == state.error_messages
            failed == FailedStages(steps)
        IN  /\ Len(steps) = steps_run
            /\ \A i \in 1..Len(steps) : steps[i] \in StageStepNames[i]
            /\ Len(errors) = Len(failed)
            /\ \A n \in 1..Len(failed) :
                  StartsWith(errors[n], StageErrorPrefixes[failed[n]])
            /\ \A i \in 1..Len(steps) :
                  (steps[i] = FailedStepNames[i]) = StageCallFailed(i)

\* the output fields of the state record, and the ones each stage sets
OutputFields ==
    {"original_text", "stt_confidence", "cleaned_text", "removed_fillers",
     "organized_story", "extracted_tags"}
StageOutputs(node) ==
    CASE node = "stt" -> {"original_text", "stt_confidence"}
      [] node = "cleaner" -> {"cleaned_text", "removed_fillers"}
      [] node = "organizer" -> {"organized_story"}
      [] node = "tagger" -> {"extracted_tags"}


\* no update of the stage about to run contains an output field of
\* another stage
UpdatesOwnFieldsOnly ==
    pc \in GraphNodes =>
        \A u \in StageUpdates(pc, state) :
            (DOMAIN u \cap OutputFields) \subseteq StageOutputs(pc)

\* a step of a stage leaves the output fields of the other stages alone
OtherOutputsKept ==
    pc \in GraphNodes =>
        \A f \in OutputFields \ StageOutputs(pc) : state'[f] = state[f]

\* what the one graph-path call of a collaborator returned, or a default
\* when it raised or was not made
GraphReturn(fn, default) ==
    IF CallsOf(fn, "graph") # <<>> /\ CallsOf(fn, "graph")[1].ret.ok
    THEN CallsOf(fn, "graph")[1].ret.val
    ELSE default

\* at the end of the graph path each output field holds what its stage
\* set: the collaborator's return, the dummy transcript of a failed
\* recognition, or the value of initial_state when the stage failed
TerminalValuesAsSet ==
    ViaGraph =>
        LET stt == GraphReturn("transcribe",
                       [text |-> DummyText, confidence |-> 0])
            cleaned == GraphReturn("clean",
                       [cleaned_text |-> <<>>, removed_fillers |-> <<>>])
        IN  /\ state.original_text = stt.text
            /\ state.stt_confidence = stt.confidence
            /\ state.cleaned_text = cleaned.cleaned_text
            /\ state.removed_fillers = cleaned.removed_fillers
            /\ state.organized_story = GraphReturn("organize", EmptyDict)
            /\ state.extracted_tags = GraphReturn("extract_tags", <<>>)

\* C22: on the graph path each output field (original_text,
\* stt_confidence, cleaned_text, removed_fillers, organized_story,
\* extracted_tags) is written by one stage only: no update a stage can
\* return contains an output field of another stage, no step of a stage
\* changes one, and in the terminal state each field holds the value its
\* stage set.
C22_WrittenByOneStage ==
    /\ []UpdatesOwnFieldsOnly
    /\ [][OtherOutputsKept]_vars
    /\ []TerminalValuesAsSet

\* C22 witness: a graph-path return after four completed stages, every
\* output field holding what its stage produced
C22_Witness ==
    /\ ViaGraph
    /\ state.processing_steps =
          <<"stt_complete", "cleaning_complete", "organizing_complete",
            "tagging_complete">>
    /\ state.original_text = TextSpeech
    /\ state.cleaned_text = TextFine
    /\ state.organized_story = StoryTwoSections
    /\ state.extracted_tags # <<>>

\* a stage call changes no object that existed before it, so the record
\* the node received reads the same after the call; every list or dict of
\* its update is an object made by the call; and the record the engine
\* holds afterwards is the merge of the old one and one update of the node
StageCallLeavesArgument ==
    hpc \in GraphNodes =>
        /\ \A r \in 1..Len(heap) : heap'[r] = heap[r]
        /\ Deref(heap', hstate) = Deref(heap, hstate)
        /\ \A k \in RefFieldSet :
              hstate'[k] # hstate[k] => hstate'[k] > Len(heap)
        /\ \E u \in StageUpdates(hpc, Deref(heap, hstate)) :
              Deref(heap', hstate') = Merge(Deref(heap, hstate), u)

\* C23: a stage function does not mutate the state record it receives:
\* processing_steps, error_messages and processing_time of its update are
\* new objects, the record passed in is the same before and after the
\* call, and the running record changes only by the merge of the update.
C23_StageDoesNotMutate == [][StageCallLeavesArgument]_vars

\* C23 witness: after four stage calls, two of which recorded an error,
\* the three objects of initial_state are still empty and the record
\* points to later objects holding four steps and two errors
C23_Witness ==
    /\ hpc = "gate"
    /\ heap[1] = <<>> /\ heap[2] = <<>> /\ heap[3] = EmptyDict
    /\ hstate.processing_steps > 3
    /\ Len(heap[hstate.processing_steps]) = 4
    /\ Len(heap[hstate.error_messages]) = 2
    /\ "stt" \in DOMAIN heap[hstate.processing_time]

\* the text tagging is to be given for a structured document: the
\* contents of its sections joined by a space when it has a non-empty
\* list of sections, the cleaned text otherwise
ExpectedTagInput(doc, cleaned_text) ==
    IF IsDict(doc) /\ HasKey(doc, "sections") /\ doc.sections # <<>>
    THEN SectionsText(doc.sections)
    ELSE cleaned_text

\* C24: on both paths extract_tags is called with the space-joined
\* contents of the sections of the structured document when it has a
\* non-empty sections list, and with cleaned_text otherwise; on the graph
\* path that holds also after a structuring stage that failed or gave no
\* sections, and the tagging stage does not turn such a document into a
\* tagging error; on the fallback path it holds once organize returned.
C24_TaggingInput ==
    /\ (InProcessVoice /\ Len(state.processing_steps) = 4) =>
          LET calls == CallsOf("extract_tags", "graph") IN
          /\ Len(calls) = 1
          /\ calls[1].arg = ExpectedTagInput(state.organized_story,
                                             state.cleaned_text)
          /\ StepRecorded("tagging_failed") => ~calls[1].ret.ok
    /\ (ViaFallback /\ "organized_story" \in DOMAIN locals) =>
          LET calls == CallsOf("extract_tags", "fallback") IN
          /\ Len(calls) = 1
          /\ calls[1].arg = ExpectedTagInput(locals.organized_story,
                                             locals.cleaned_text)

\* C25: the answer of the quality gate does not reach the returned result:
\* on the graph path success is true exactly when error_messages is
\* empty, the result has the fields of ProcessingResult and none of them
\* holds the gate's answer, and a run the gate ended as
\* insufficient_content returns success = true with an empty
\* error_message, as a run ended as success does.
C25_GateOutcomeNotInResult ==
    ViaGraph =>
        /\ Result.success = (state.error_messages = <<>>)
        /\ DOMAIN Result = ResultFields
        /\ DOMAIN Result.processing_info =
              {"steps", "stt_confidence", "removed_fillers",
               "processing_time"}
        /\ \A i \in 1..Len(Result.processing_info.steps) :
              Result.processing_info.steps[i] \notin GateOutcomes
        /\ outcome \in {"insufficient_content", "success"} =>
              /\ Result.success = TRUE
              /\ Result.error_message = <<>>
        /\ outcome = "failed" => Result.success = FALSE

\* C25 witness: the gate answered insufficient_content for the three
\* characters "Hi." and the run returned success = true without an error
\* message
C25_Witness ==
    /\ ViaGraph
    /\ outcome = "insufficient_content"
    /\ Result.cleaned_text = TextHi
    /\ Result.success
    /\ Result.error_message = <<>>

\* the fallback made its four collaborator calls and none raised
FallbackCallsAllOk ==
    \A fn \in CollaboratorNames :
        /\ Len(CallsOf(fn, "fallback")) = 1
        /\ CallsOf(fn, "fallback")[1].ret.ok

\* C26: when invoke raised and the four collaborator calls of the
\* fallback succeeded, process_voice has returned success = true with an
\* empty error_message and the steps stt_complete, cleaning_complete,
\* organizing_complete, tagging_complete, whatever the engine's error
\* was, whatever errors the stages of the graph path had recorded before
\* it, and however short the cleaned text is.
C26_FallbackSuccessHidesErrors ==
    (engine_error.raised /\ FallbackCallsAllOk) =>
        /\ Done
        /\ completion.kind = "return"
        /\ Result.success = TRUE
        /\ Result.error_message = <<>>
        /\ Result.processing_info.steps =
              <<"stt_complete", "cleaning_complete", "organizing_complete",
                "tagging_complete">>
        /\ Result.cleaned_text =
              CallsOf("clean", "fallback")[1].ret.val.cleaned_text

\* C26 witness: two stages of the graph path recorded an error, the gate
\* answered failed, invoke raised, and the fallback, all of whose calls
\* succeeded, returned success = true for the cleaned text "Hi."
C26_Witness ==
    /\ ViaFallback
    /\ FallbackCallsAllOk
    /\ Len(state.error_messages) = 2
    /\ outcome = "failed"
    /\ Result.cleaned_text = TextHi
    /\ Result.success

\* C27: two process_uploaded_audio calls with the same original_filename,
\* run at once, do not interfere: the workflow of each call reads the
\* bytes of that call's upload, and from the end of a call's write until
\* its workflow has read, the temp path names a file holding exactly the
\* bytes that call wrote.
C27_UploadsDoNotInterfere ==
    \A i \in CallIds :
        /\ uploads[i].read.kind # "none" =>
              /\ uploads[i].read.kind = "bytes"
              /\ uploads[i].read.bytes = uploads[i].bytes
        /\ uploads[i].pc \in {"exists", "stat", "process"} =>
              /\ temp_entry # 0
              /\ files[temp_entry] = uploads[i].bytes

\* C28: once the process_uploaded_audio calls that were made have
\* returned, the temp path names no file, whether the save failed,
\* validation failed, the workflow failed or the run succeeded; a call
\* ends by returning, never by raising; and an exception while saving or
\* processing is returned as a result with success = false that carries
\* its text.
C28_NoTempFileLeft ==
    /\ (\A i \in CallIds : uploads[i].pc \in {"idle", "done"}) =>
          temp_entry = 0
    /\ \A i \in CallIds :
          uploads[i].pc = "done" =>
              /\ uploads[i].end.kind = "return"
              /\ uploads[i].end.value = uploads[i].result
              /\ uploads[i].caught.raised =>
                    /\ uploads[i].end.value.success = FALSE
                    /\ uploads[i].end.value.error_message =
                          UploadErrorPrefix \o uploads[i].caught.err
              /\ uploads[i].end.value.success =>
                    /\ ~uploads[i].caught.raised
                    /\ uploads[i].read.kind = "bytes"

\* the state of the service after the n-th switch_provider call
ServiceAfter(n) ==
    IF n = Len(switch_log) THEN service ELSE switch_log[n + 1].before

\* C29: after any sequence of switch_provider calls the llm_provider of
\* the service names the provider its workflow was built for, and every
\* call that returned False left llm_provider and workflow as they were
\* before it.
C29_ProviderNamesWorkflow ==
    /\ service.llm_provider = service.workflow.llm_provider
    /\ \A n \in 1..Len(switch_log) :
          switch_log[n].end = Return(FALSE) =>
              /\ ServiceAfter(n).llm_provider =
                    switch_log[n].before.llm_provider
              /\ ServiceAfter(n).workflow = switch_log[n].before.workflow

\* whenever is_ready is true the vector store exists and was built from
\* exactly text_docs + image_docs
IndexMatchesDocuments ==
    is_ready =>
        /\ vectorstore # NoneValue
        /\ vectorstore.docs = text_docs \o image_docs

\* a call of an add method keeps every document added before, and a call
\* that raised changed none of text_docs, image_docs, vectorstore, is_ready
AddKeepsDocuments ==
    /\ StartsWith(text_docs', text_docs)
    /\ StartsWith(image_docs', image_docs)
    /\ rag_return'.end.kind = "raise" =>
          UNCHANGED <<text_docs, image_docs, vectorstore, is_ready>>

\* C30: after any sequence of add_text_document, add_image_document and
\* add_pdf_document calls no document added before is lost (text_docs and
\* image_docs only grow), whenever is_ready is true the vector store is
\* not None and was built from exactly text_docs + image_docs, and a call
\* that fails leaves text_docs, image_docs, vectorstore and is_ready
\* unchanged.
C30_NoDocumentLost ==
    /\ []IndexMatchesDocuments
    /\ [][AddKeepsDocuments]_vars

====
